---- MODULE Spec2Model ----
(***************************************************************************)
(* Verification model of the 2ch-style video pipeline.                     *)
(*                                                                         *)
(*   voice generator   src/src/3_voice_gen.py  generate_voices_from_script *)
(*   image cache       src/src/image_cache.py  ImageCache                  *)
(*   image generator   src/src/2_image_gen.py  generate_images_from_script *)
(*   script generator  src/src/1_script_gen.py generate_script             *)
(*   text conversion   src/src/3_voice_gen.py  apply_reading_dict,         *)
(*                                             convert_large_numbers       *)
(*   video assembler   src/src/4_video_edit.py                             *)
(*                                     create_video_with_stacked_subtitles *)
(*   upload            src/Skills/google/youtube_upload.py  upload_video   *)
(*   publish slot      src/src/youtube_uploader.py  get_next_publish_time  *)
(*                                                                         *)
(* Each stage runs on its own (the pipeline is sequential), so each stage  *)
(* has its own specification over the module's variables; the variables of *)
(* the other stages stay at their idle values.                             *)
(*                                                                         *)
(* Conventions: sequence positions are 1-based (turn i of the model is     *)
(* enumerate() index i-1 of the code); times are integers in milliseconds  *)
(* (pydub measures len(audio) in ms); text is a sequence of one-character  *)
(* strings.                                                                *)
(***************************************************************************)
EXTENDS Integers, Sequences, FiniteSets, TLC

VARIABLES
    \* ---- voice generator (3_voice_gen.py) ----
    script,         \* the loaded script: sequence of [role, text]
    vfiles,         \* VOICES_DIR: turn -> NoFile or the wav file of that turn
    vpc,            \* position inside generate_voices_from_script
    vi,             \* loop variable i (1-based)
    ai_fixed_texts, \* turn -> text fixed by the batched AI pass
    voice_map,      \* set of turns that are keys of voice_map
    subtitles,      \* the timeline being accumulated
    current_time,   \* running total
    outVoiceMap,    \* voice_map.json as written: its keys
    outSubtitles,   \* subtitles.json as written (NotWritten before)
    ttsCalls,       \* history: turn -> number of synthesize_sync calls
    ttsFailed,      \* history: turns whose synthesize_sync call raised
    reachedExisting,\* history: turns whose file existed when reached
    stepFailed,     \* history: turns whose speed, normalize or measure step raised
    \* ---- image cache (image_cache.py) ----
    cache,          \* IMAGE_CACHE_DIR: cache file name -> bytes (NoBytes: absent)
    ofiles,         \* output paths handed to get_or_generate -> bytes
    cpc,            \* position inside ImageCache.get_or_generate
    ccur,           \* the call in progress: prompt, output_path, generator calls
    calls,          \* history: the calls that have ended, in order
    \* ---- image generator (2_image_gen.py) ----
    iscript,        \* the loaded script: sequence of [has_prompt, image_prompt]
    method,         \* the method argument
    client_ok,      \* the client of the chosen method was created (API key set)
    ifiles,         \* IMAGES_DIR: turn -> bytes of the turn's png
    ipc,            \* position inside generate_images_from_script
    ii,             \* loop variable i (1-based)
    image_map,      \* set of turns that are keys of image_map
    outImageMap,    \* image_map.json as written and returned
    backendCalls,   \* history: turn -> calls of the image backend
    ievents,        \* history: turn -> cache and backend events, in order
    iexisted,       \* history: turns whose output file existed when reached
    isucceeded,     \* history: turns whose generate_image_* returned True
    ifailed,        \* history: turns whose generate_image_* returned False
    \* ---- script generator (1_script_gen.py) ----
    spc,            \* position inside generate_script
    attempt,        \* loop variable attempt of the half in progress
    part1,          \* parsed first half
    part2,          \* parsed second half
    last_entries,   \* the turns of part1 put into prompt2
    scriptFile,     \* SCRIPTS_DIR / output_filename
    serror,         \* the exception that left generate_script, if any
    requests,       \* history: half -> LLM requests sent
    parseFailures,  \* history: half -> responses that could not be parsed
    scriptWrites,   \* history: writes of the script file by this call
    \* ---- one call of a function without state ----
    arg,            \* the arguments of the call
    ret,            \* what the call returned (NotReturned before)
    fpc,            \* "idle", "called" or "returned"
    \* ---- apply_reading_dict (3_voice_gen.py) ----
    rtext,          \* text: its characters, each with its position in the
                    \* argument (0: written by a reading)
    rk,             \* position of the loop in the sorted items
    matches,        \* history: the replacements made, in order
    \* ---- number conversion of a turn's text (3_voice_gen.py) ----
    ntext,          \* voice_text after normalize_fullwidth_numbers
    \* ---- subtitle stack grouping (4_video_edit.py) ----
    subtitles_data, \* the timeline handed over: sequence of [index, role, height]
    stack_subtitles,    \* the turns that are stacked
    special_subtitles,  \* narrator and title_card turns
    gi,             \* loop variable i (1-based)
    group,          \* the group being filled
    total_height,   \* its running height
    subtitle_groups,\* the groups closed so far
    gpc,            \* position inside the grouping loops
    \* ---- chunked upload (Skills/google/youtube_upload.py) ----
    response,       \* response of the loop (NoResponse: None)
    retry_count,    \* retry_count
    upc,            \* position inside upload_video
    uprogress,      \* chunks the server has acknowledged as incomplete
    uerror,         \* the exception that left upload_video, if any
    chunkLog,       \* history: the outcomes of request.next_chunk(), in order
    \* ---- statistics backfill (video_tracker.py) ----
    sheet,          \* the tracking sheet: rows of cells, columns A to J
    sheet0,         \* history: the sheet when update_video_stats was called
    tvalues,        \* values as get_values returned them
    trow,           \* position of the loop in values[1:] (1-based)
    updates,        \* the updates collected for batch_update
    updated_count,  \* updated_count
    tpc,            \* position inside update_video_stats
    \* ---- two runs on one output directory ----
    rsite,          \* which check-then-write the runs go through
    rfiles,         \* the files of the directory: the turns whose file exists
    rpc,            \* run -> the turn it is at and its position there
    rinvoked,       \* history: run -> turns it invoked the backend for
    rwrote          \* history: run -> turns whose file it wrote

voiceVars == <<script, vfiles, vpc, vi, ai_fixed_texts, voice_map,
               subtitles, current_time, outVoiceMap, outSubtitles,
               ttsCalls, ttsFailed, reachedExisting, stepFailed>>

cacheCallVars == <<ofiles, cpc, ccur, calls>>
cacheVars == <<cache, cacheCallVars>>

imageVars == <<iscript, method, client_ok, ifiles, ipc, ii, image_map,
               outImageMap, backendCalls, ievents, iexisted, isucceeded,
               ifailed>>

scriptVars == <<spc, attempt, part1, part2, last_entries, scriptFile, serror,
                requests, parseFailures, scriptWrites>>

callVars == <<arg, ret, fpc>>

readingVars == <<rtext, rk, matches>>

\* the variables of the stages that follow the script generator
numberVars == <<ntext>>

groupVars == <<subtitles_data, stack_subtitles, special_subtitles, gi, group,
               total_height, subtitle_groups, gpc>>

\* the variables of the stages after the number conversion
uploadVars == <<response, retry_count, upc, uprogress, uerror, chunkLog>>

trackVars == <<sheet, sheet0, tvalues, trow, updates, updated_count, tpc>>

\* the variables of the stages around the upload
raceVars == <<rsite, rfiles, rpc, rinvoked, rwrote>>

finalVars == <<trackVars, raceVars>>

lastVars == <<groupVars, uploadVars, finalVars>>

laterVars == <<callVars, readingVars, numberVars, lastVars>>

vars == <<voiceVars, cacheVars, imageVars, scriptVars, laterVars>>

\* what each stage leaves alone
nonVoiceVars == <<cacheVars, imageVars, scriptVars, laterVars>>
nonCacheVars == <<voiceVars, imageVars, scriptVars, laterVars>>
nonImageVars == <<voiceVars, cacheCallVars, scriptVars, laterVars>>
nonScriptVars == <<voiceVars, cacheVars, imageVars, laterVars>>
earlyVars == <<voiceVars, cacheVars, imageVars, scriptVars>>
nonCallVars == <<earlyVars, readingVars, numberVars, lastVars>>
nonReadingVars == <<earlyVars, numberVars, lastVars>>
nonNumberVars == <<earlyVars, readingVars, lastVars>>
textVars == <<callVars, readingVars, numberVars>>
nonGroupVars == <<earlyVars, textVars, uploadVars, finalVars>>
nonUploadVars == <<earlyVars, textVars, groupVars, finalVars>>
midVars == <<earlyVars, textVars, groupVars, uploadVars>>
nonTrackVars == <<midVars, raceVars>>
nonRaceVars == <<midVars, trackVars>>

\* no call in progress
NotReturned == [kind |-> "none"]
CallIdle == arg = <<>> /\ ret = NotReturned /\ fpc = "idle"

ReadingIdle == rtext = <<>> /\ rk = 0 /\ matches = <<>>

NumberIdle == ntext = <<>>

GroupIdle ==
    /\ subtitles_data = <<>> /\ stack_subtitles = <<>>
    /\ special_subtitles = <<>> /\ gi = 0 /\ group = <<>>
    /\ total_height = 0 /\ subtitle_groups = <<>> /\ gpc = "idle"

NoResponse == [kind |-> "None"]

UploadIdle ==
    /\ response = NoResponse /\ retry_count = 0 /\ upc = "idle"
    /\ uprogress = 0 /\ uerror = "none" /\ chunkLog = <<>>

TrackIdle ==
    /\ sheet = <<>> /\ sheet0 = <<>> /\ tvalues = <<>> /\ trow = 0
    /\ updates = <<>> /\ updated_count = 0 /\ tpc = "idle"

RaceIdle ==
    /\ rsite = "none" /\ rfiles = {} /\ rpc = <<>> /\ rinvoked = <<>>
    /\ rwrote = <<>>

FinalIdle == TrackIdle /\ RaceIdle

LastIdle == GroupIdle /\ UploadIdle /\ FinalIdle

TextIdle == CallIdle /\ ReadingIdle /\ NumberIdle

LaterIdle == TextIdle /\ LastIdle

(***************************************************************************)
(* Bounds of the model                                                     *)
(***************************************************************************)
MaxTurns == 3

\* calls of get_or_generate made in a row
MaxCalls == 3
\* turns of the script handed to the image generator
MaxImgTurns == 3

\* length (ms) of the audio the TTS server returns per character of text
MsPerChar == 1150
NoFile == [len |-> -1, speed |-> 0, norm |-> 0]
\* subtitles.json before any run has written it
NotWritten == [written |-> FALSE, total_duration |-> 0, subtitles |-> <<>>]

(***************************************************************************)
(* Text conversion (3_voice_gen.py)                                        *)
(***************************************************************************)
\* str.startswith at position p (1-based)
MatchAt(text, p, orig) ==
    /\ p + Len(orig) - 1 <= Len(text)
    /\ \A k \in 1..Len(orig) : text[p + k - 1] = orig[k]

\* str.replace(orig, reading): leftmost, non-overlapping, orig non-empty
RECURSIVE ReplaceFrom(_, _, _, _)
ReplaceFrom(text, p, orig, reading) ==
    IF p > Len(text) THEN <<>>
    ELSE IF MatchAt(text, p, orig)
         THEN reading \o ReplaceFrom(text, p + Len(orig), orig, reading)
         ELSE <<text[p]>> \o ReplaceFrom(text, p + 1, orig, reading)

Replace(text, orig, reading) == ReplaceFrom(text, 1, orig, reading)

\* Characters: a digit or a Latin letter stands for itself; a kanji is
\* written in capitals (MAN, KIN, YO, TEI, KI); a kana is written with a
\* leading underscore (_ga).
\*
\* Entries of READING_DICT, in the order the dict literal lists them:
\* lines 96, 97, 186, 187, 198, 199, 200, 312, 313.
READING_DICT ==
    << [orig    |-> <<"1", "0", "0", "0", "MAN">>,
        reading |-> <<"_i", "_xtu", "_se", "_n", "_ma", "_n">>],
       [orig    |-> <<"1", "0", "0", "MAN">>,
        reading |-> <<"_hi", "_xya", "_ku", "_ma", "_n">>],
       [orig    |-> <<"KIN", "_ga", "_na", "_i">>,
        reading |-> <<"_ka", "_ne", "_ga", "_na", "_i">>],
       [orig    |-> <<"KIN", "_ga">>,
        reading |-> <<"_ka", "_ne", "_ga">>],
       [orig    |-> <<"w", "w", "w">>, reading |-> <<>>],
       [orig    |-> <<"w", "w">>,      reading |-> <<>>],
       [orig    |-> <<"w">>,           reading |-> <<>>],
       [orig    |-> <<"YO", "KIN">>,
        reading |-> <<"_yo", "_ki", "_n">>],
       [orig    |-> <<"TEI", "KI", "YO", "KIN">>,
        reading |-> <<"_te", "_i", "_ki", "_yo", "_ki", "_n">>] >>

\* characters in the range U+3040..U+30FF
KanaChars ==
    {"_i", "_xtu", "_se", "_n", "_ma", "_hi", "_xya", "_ku", "_ga", "_na",
     "_ka", "_ne", "_yo", "_ki", "_te", "_ha", "_wa", "_so", "_re", "_WA",
     "_I"}

\* (variant: the items are not sorted by length)
KeyLess_Unsorted(a, b) == FALSE

\* _reading_sort_key: (-len(orig), has_kana), compared as a tuple
KeyLess(a, b) ==
    LET ha == \E k \in 1..Len(a.orig) : a.orig[k] \in KanaChars
        hb == \E k \in 1..Len(b.orig) : b.orig[k] \in KanaChars
    IN  \/ Len(a.orig) > Len(b.orig)
        \/ Len(a.orig) = Len(b.orig) /\ ~ha /\ hb

\* sorted(): stable sort (selection of the first minimal remaining entry)
RECURSIVE SortedFrom(_, _)
SortedFrom(d, rest) ==
    IF rest = {} THEN <<>>
    ELSE LET m == CHOOSE j \in rest :
                    \A k \in rest \ {j} :
                        \/ KeyLess(d[j], d[k])
                        \/ ~KeyLess(d[k], d[j]) /\ j < k
         IN  <<d[m]>> \o SortedFrom(d, rest \ {m})

SortedReadingDict == SortedFrom(READING_DICT, DOMAIN READING_DICT)

RECURSIVE ApplyEntries(_, _, _)
ApplyEntries(text, entries, k) ==
    IF k > Len(entries) THEN text
    ELSE ApplyEntries(Replace(text, entries[k].orig, entries[k].reading),
                      entries, k + 1)

apply_reading_dict(text) == ApplyEntries(text, SortedReadingDict, 1)

\* whitespace: the space and the newline ("nl")
IsSpace(ch) == ch \in {" ", "nl"}

\* str.lstrip, str.rstrip, str.strip
RECURSIVE LStrip(_)
LStrip(t) == IF t # <<>> /\ IsSpace(Head(t)) THEN LStrip(Tail(t)) ELSE t
RECURSIVE RStrip(_)
RStrip(t) == IF t # <<>> /\ IsSpace(t[Len(t)])
             THEN RStrip(SubSeq(t, 1, Len(t) - 1)) ELSE t
Strip(t) == RStrip(LStrip(t))

\* The basic conversion of one turn's text.  The texts of the model hold no
\* digit and no particle pattern, so normalize_fullwidth_numbers,
\* convert_large_numbers and convert_particle_ha leave them as they are.
BasicVoiceText(text) == Strip(apply_reading_dict(text))

(***************************************************************************)
(* Voice generator: tables                                                 *)
(***************************************************************************)
INTER_SCENE_GAP == 400
TITLE_CARD_DURATION == 1500

\* VOICEVOX_SPEED_MAPPING.get(role, DEFAULT_SPEED), in percent
SpeedPct(role) == IF role = "res_A" THEN 115 ELSE 100

\* The turns of the model: a title card, an empty-text turn, a turn whose
\* text is net slang only (its voice text is empty), a plain turn of a role
\* with speed 1.0 and a plain turn of a role with a speed adjustment.
Turns ==
    { [role |-> "title_card", text |-> <<"a">>],
      [role |-> "narrator",   text |-> <<>>],
      [role |-> "narrator",   text |-> <<"w">>],
      [role |-> "narrator",   text |-> <<"a", "w">>],
      [role |-> "res_A",      text |-> <<"a">>] }

Scripts == UNION { [1..n -> Turns] : n \in 1..MaxTurns }

EmptyMap == [i \in {} |-> <<>>]

(***************************************************************************)
(* Script generator: JSON extraction (1_script_gen.py)                     *)
(*                                                                         *)
(* A response is a sequence of characters.  "q" is the double quote, "nl"  *)
(* the newline, "FENCE" the three backticks of a markdown code fence and   *)
(* "json" the four letters of the fence's language tag; every other        *)
(* element is the character itself.  A turn object is written              *)
(* { q text q }: the members of the object are reduced to the one string   *)
(* that holds the turn's text.                                             *)
(***************************************************************************)
\* the first position at or after p that holds no whitespace
RECURSIVE SkipSpace(_, _)
SkipSpace(c, p) ==
    IF p <= Len(c) /\ IsSpace(c[p]) THEN SkipSpace(c, p + 1) ELSE p

\* the position of the quote that closes the string whose first character
\* is at p; 0 when the string is not terminated or holds a control character
RECURSIVE StringEnd(_, _)
StringEnd(c, p) ==
    IF p > Len(c) THEN 0
    ELSE IF c[p] = "q" THEN p
    ELSE IF c[p] = "nl" THEN 0
    ELSE StringEnd(c, p + 1)

NoParse == [ok |-> FALSE, val |-> <<>>, next |-> 0]

\* a JSON string at p
ParseString(c, p) ==
    IF p <= Len(c) /\ c[p] = "q" /\ StringEnd(c, p + 1) > 0
    THEN [ok |-> TRUE,
          val |-> SubSeq(c, p + 1, StringEnd(c, p + 1) - 1),
          next |-> StringEnd(c, p + 1) + 1]
    ELSE NoParse

\* a turn object at p; its value is the turn's text
ParseObject(c, p) ==
    IF p <= Len(c) /\ c[p] = "{"
    THEN LET s == ParseString(c, SkipSpace(c, p + 1))
             e == SkipSpace(c, s.next)
         IN  IF s.ok /\ e <= Len(c) /\ c[e] = "}"
             THEN [ok |-> TRUE, val |-> s.val, next |-> e + 1]
             ELSE NoParse
    ELSE NoParse

\* the elements of an array from p on, up to and including the closing "]"
RECURSIVE ParseElements(_, _, _)
ParseElements(c, p, acc) ==
    LET o == ParseObject(c, SkipSpace(c, p))
        e == SkipSpace(c, o.next)
    IN  IF ~o.ok \/ e > Len(c) THEN NoParse
        ELSE IF c[e] = "]"
             THEN [ok |-> TRUE, val |-> Append(acc, o.val), next |-> e + 1]
        ELSE IF c[e] = ","
             THEN ParseElements(c, e + 1, Append(acc, o.val))
        ELSE NoParse

\* a JSON array of turn objects at p
ParseArray(c, p) ==
    IF p <= Len(c) /\ c[p] = "["
    THEN LET e == SkipSpace(c, p + 1)
         IN  IF e <= Len(c) /\ c[e] = "]"
             THEN [ok |-> TRUE, val |-> <<>>, next |-> e + 1]
             ELSE ParseElements(c, p + 1, <<>>)
    ELSE NoParse

\* the value json.loads returns: an array of turns, one turn object, or
\* nothing (JSONDecodeError)
NoValue == [kind |-> "error", items |-> <<>>]

\* json.loads: one value, whitespace around it, nothing after it
json_loads(c) ==
    LET p == SkipSpace(c, 1)
        a == ParseArray(c, p)
        o == ParseObject(c, p)
    IN  IF a.ok /\ SkipSpace(c, a.next) = Len(c) + 1
        THEN [kind |-> "array", items |-> a.val]
        ELSE IF o.ok /\ SkipSpace(c, o.next) = Len(c) + 1
             THEN [kind |-> "object", items |-> <<o.val>>]
             ELSE NoValue

Parses(c) == json_loads(c) # NoValue

\* re.sub(r',\s*(X)', r'\1', content): a comma, any whitespace and the
\* closing character X become X, wherever they stand in the text
RECURSIVE StripCommaBefore(_, _)
StripCommaBefore(c, closer) ==
    IF c = <<>> THEN <<>>
    ELSE IF /\ Head(c) = ","
            /\ SkipSpace(c, 2) <= Len(c)
            /\ c[SkipSpace(c, 2)] = closer
         THEN <<closer>> \o
              StripCommaBefore(SubSeq(c, SkipSpace(c, 2) + 1, Len(c)), closer)
         ELSE <<Head(c)>> \o StripCommaBefore(Tail(c), closer)

\* (variant: commas are left where they are)
StripTrailingCommas_Keeps(c) == c

\* lines 284-285
StripTrailingCommas(c) == StripCommaBefore(StripCommaBefore(c, "]"), "}")

\* content.rfind("}"), 1-based; 0 when there is none
LastBrace(c) ==
    IF \E k \in 1..Len(c) : c[k] = "}"
    THEN CHOOSE k \in 1..Len(c) :
            c[k] = "}" /\ \A j \in (k + 1)..Len(c) : c[j] # "}"
    ELSE 0

\* content.rfind("},"), 1-based; 0 when there is none
LastComplete(c) ==
    IF \E k \in 1..(Len(c) - 1) : c[k] = "}" /\ c[k + 1] = ","
    THEN CHOOSE k \in 1..(Len(c) - 1) :
            /\ c[k] = "}" /\ c[k + 1] = ","
            /\ \A j \in (k + 1)..(Len(c) - 1) :
                  ~(c[j] = "}" /\ c[j + 1] = ",")
    ELSE 0

\* lines 287-291: an array that is not closed is cut after the last "}"
\* (rfind > 0: a brace at the very start does not count)
CloseArray(c) ==
    IF /\ c # <<>> /\ c[1] = "["
       /\ ~(RStrip(c) # <<>> /\ RStrip(c)[Len(RStrip(c))] = "]")
       /\ LastBrace(c) > 1
    THEN SubSeq(c, 1, LastBrace(c)) \o <<"nl", "]">>
    ELSE c

\* lines 299-307: cut after the last "}," and close
CutAtLastComplete(c) ==
    IF LastComplete(c) > 1
    THEN SubSeq(c, 1, LastComplete(c)) \o <<"nl", "]">>
    ELSE c

\* _repair_json
repair_json(content) ==
    LET c1 == StripTrailingCommas(content)
        c2 == CloseArray(c1)
    IN  IF Parses(c2) THEN c2 ELSE CutAtLastComplete(c2)

\* lines 260-268: strip; the text between the first two fences, a leading
\* "json" dropped, stripped again
Unfence(content) ==
    LET c == Strip(content)
    IN  IF c # <<>> /\ c[1] = "FENCE"
        THEN LET rest == Tail(c)
                 stop == IF \E k \in 1..Len(rest) : rest[k] = "FENCE"
                         THEN (CHOOSE k \in 1..Len(rest) :
                                 /\ rest[k] = "FENCE"
                                 /\ \A j \in 1..(k - 1) : rest[j] # "FENCE") - 1
                         ELSE Len(rest)
                 body == SubSeq(rest, 1, stop)
             IN  Strip(IF body # <<>> /\ body[1] = "json"
                       THEN Tail(body) ELSE body)
        ELSE c

\* _extract_json: the parsed value, or NoValue when json.loads raises
extract_json(content) ==
    IF Parses(Unfence(content)) THEN json_loads(Unfence(content))
    ELSE json_loads(repair_json(Unfence(content)))

\* a turn object with the given text, as the LLM writes it
Obj(text) == <<"{", "q">> \o text \o <<"q", "}">>

\* a well-formed array of turn objects with the given texts
RECURSIVE ArrayBody(_)
ArrayBody(texts) ==
    IF texts = <<>> THEN <<>>
    ELSE IF Len(texts) = 1 THEN Obj(texts[1])
    ELSE Obj(Head(texts)) \o <<",">> \o ArrayBody(Tail(texts))

ArrayOf(texts) == <<"[">> \o ArrayBody(texts) \o <<"]">>

O1 == <<"a">>
O2 == <<"b">>

\* what the LLM may answer: well-formed arrays (one of them longer than
\* five turns), a fenced array, a trailing comma, an array cut off in the
\* middle of an object, prose, and a single object
Responses ==
    { ArrayOf(<<O1, O2>>),
      ArrayOf(<<O1, O2, O1, O1, O2, O2>>),
      <<"FENCE", "json", "nl">> \o ArrayOf(<<O1>>) \o <<"nl", "FENCE">>,
      <<"[">> \o Obj(O1) \o <<",">> \o Obj(O2) \o <<",", "]">>,
      <<"[">> \o Obj(O1) \o <<",">> \o Obj(O2) \o <<",", "{", "q", "a">>,
      <<"[">> \o Obj(O1) \o <<",", "a">> \o Obj(O2),
      <<"[", "{", "q", "a">>,
      <<"a">>,
      Obj(O1) }

(***************************************************************************)
(* Script generator: generate_script                                       *)
(***************************************************************************)
\* (variant: one more attempt)
ATTEMPTS_Four == 3 + 1
\* range(3) at lines 397 and 431
ATTEMPTS == 3

NoScript == [exists |-> FALSE, turns |-> <<>>]
OldScript == [exists |-> TRUE, turns |-> <<O2>>]

\* (variant: the whole first half is put into the prompt)
LastFive_All(items) == items

\* lines 208 and 255: the number of elements each prompt demands at least
MIN_ELEMENTS_PER_HALF == 85

\* part1[-5:]
LastFive(items) ==
    IF Len(items) <= 5 THEN items ELSE SubSeq(items, Len(items) - 4, Len(items))

ScriptIdle ==
    /\ spc = "idle"
    /\ attempt = 0
    /\ part1 = NoValue
    /\ part2 = NoValue
    /\ last_entries = <<>>
    /\ scriptFile = NoScript
    /\ serror = "none"
    /\ requests = [h \in 1..2 |-> 0]
    /\ parseFailures = [h \in 1..2 |-> 0]
    /\ scriptWrites = 0

ScriptInit ==
    /\ spc = "part1"
    /\ attempt = 0
    /\ part1 = NoValue
    /\ part2 = NoValue
    /\ last_entries = <<>>
    /\ scriptFile \in {NoScript, OldScript}
    /\ serror = "none"
    /\ requests = [h \in 1..2 |-> 0]
    /\ parseFailures = [h \in 1..2 |-> 0]
    /\ scriptWrites = 0

InHalf == spc \in {"part1", "part2"} /\ attempt < ATTEMPTS
Half == IF spc = "part1" THEN 1 ELSE 2
Requested == requests' = [requests EXCEPT ![Half] = @ + 1]

\* lines 398/432: generate_content (or response.text) raises; nothing
\* catches it
ScriptRequestFails ==
    /\ InHalf
    /\ Requested
    /\ serror' = "APIError"
    /\ spc' = "failed"
    /\ UNCHANGED <<attempt, part1, part2, last_entries, scriptFile,
                   parseFailures, scriptWrites>>
    /\ UNCHANGED nonScriptVars

\* lines 398-406 and 414-428: the first half is parsed; prompt2 is built
\* from it (an object instead of an array cannot be sliced: TypeError)
ScriptPart1Parsed ==
    /\ InHalf
    /\ spc = "part1"
    /\ Requested
    /\ \E r \in Responses :
          /\ extract_json(r) # NoValue
          /\ part1' = extract_json(r)
          /\ IF extract_json(r).kind = "array"
             THEN /\ last_entries' = LastFive(extract_json(r).items)
                  /\ spc' = "part2"
                  /\ attempt' = 0
                  /\ serror' = serror
             ELSE /\ last_entries' = last_entries
                  /\ spc' = "failed"
                  /\ attempt' = attempt
                  /\ serror' = "TypeError"
    /\ UNCHANGED <<part2, scriptFile, parseFailures, scriptWrites>>
    /\ UNCHANGED nonScriptVars

\* lines 432-440: the second half is parsed
ScriptPart2Parsed ==
    /\ InHalf
    /\ spc = "part2"
    /\ Requested
    /\ \E r \in Responses :
          /\ extract_json(r) # NoValue
          /\ part2' = extract_json(r)
    /\ spc' = "merge"
    /\ UNCHANGED <<attempt, part1, last_entries, scriptFile, serror,
                   parseFailures, scriptWrites>>
    /\ UNCHANGED nonScriptVars

Unparseable ==
    /\ InHalf
    /\ Requested
    /\ \E r \in Responses : extract_json(r) = NoValue
    /\ parseFailures' = [parseFailures EXCEPT ![Half] = @ + 1]

\* lines 407-412 / 441-446: JSONDecodeError before the last attempt, sleep
\* and ask again
ScriptRetry ==
    /\ Unparseable
    /\ attempt # ATTEMPTS - 1
    /\ attempt' = attempt + 1
    /\ UNCHANGED <<spc, part1, part2, last_entries, scriptFile, serror,
                   scriptWrites>>
    /\ UNCHANGED nonScriptVars

\* lines 409-411 / 443-445: JSONDecodeError on the last attempt is raised
ScriptGiveUp ==
    /\ Unparseable
    /\ attempt = ATTEMPTS - 1
    /\ serror' = "JSONDecodeError"
    /\ spc' = "failed"
    /\ UNCHANGED <<attempt, part1, part2, last_entries, scriptFile,
                   scriptWrites>>
    /\ UNCHANGED nonScriptVars

\* lines 450-470: the halves are joined, written and returned (a second
\* half that is an object cannot be appended to a list: TypeError)
ScriptMerge ==
    /\ spc = "merge"
    /\ IF part2.kind = "array"
       THEN /\ scriptFile' = [exists |-> TRUE,
                              turns |-> part1.items \o part2.items]
            /\ scriptWrites' = scriptWrites + 1
            /\ spc' = "done"
            /\ serror' = serror
       ELSE /\ spc' = "failed"
            /\ serror' = "TypeError"
            /\ UNCHANGED <<scriptFile, scriptWrites>>
    /\ UNCHANGED <<attempt, part1, part2, last_entries, requests,
                   parseFailures>>
    /\ UNCHANGED nonScriptVars

ScriptNext ==
    \/ ScriptRequestFails
    \/ ScriptPart1Parsed
    \/ ScriptPart2Parsed
    \/ ScriptRetry
    \/ ScriptGiveUp
    \/ ScriptMerge

(***************************************************************************)
(* Image cache: ImageCache (image_cache.py)                                *)
(***************************************************************************)
NoBytes == "none"
\* what an image backend may return; two calls need not return the same bytes
Images == {"imgX", "imgY"}
\* bytes of a file left by an earlier run
OldBytes == "old"

\* prompts are sequences of words
Prompts == {<<"A">>, <<"B">>}
Paths == {"out1", "out2"}

\* transform_to_irasutoya_style: the style prefix, then the prompt
transform_to_irasutoya_style(prompt) == <<"irasutoya">> \o prompt

\* _compute_hash: the first 16 hex digits of SHA-256 of the text.  The model
\* names the digest by the text it is the digest of (distinct texts of the
\* model have distinct digests).
compute_hash(text) == <<"sha256">> \o text

\* get_cache_path: cache_dir / "<hash>.png"
get_cache_path(prompt) == compute_hash(prompt) \o <<".png">>

CachePaths ==
    { get_cache_path(p) : p \in Prompts }
        \cup { get_cache_path(transform_to_irasutoya_style(p)) : p \in Prompts }

\* ImageCache.exists
cache_exists(prompt) == cache[get_cache_path(prompt)] # NoBytes

\* (variant: save leaves the cache as it is)
cache_save_Skips(prompt, bytes) == cache
\* ImageCache.save: shutil.copy2(source_path, cache_path)
cache_save(prompt, bytes) == [cache EXCEPT ![get_cache_path(prompt)] = bytes]

NoCall == [prompt |-> <<>>, path |-> "", gen |-> 0]

CacheIdle ==
    /\ cache = [c \in CachePaths |-> NoBytes]
    /\ ofiles = [q \in Paths |-> NoBytes]
    /\ cpc = "idle"
    /\ ccur = NoCall
    /\ calls = <<>>

CacheInit ==
    /\ cache \in [CachePaths -> {NoBytes, OldBytes}]
    /\ \A p \in Prompts :
          cache[get_cache_path(transform_to_irasutoya_style(p))] = NoBytes
    /\ ofiles \in [Paths -> {NoBytes, OldBytes}]
    /\ cpc = "idle"
    /\ ccur = NoCall
    /\ calls = <<>>

\* a call that has ended: how it ended, what it left at output_path and how
\* often it invoked generate_fn
CallRecord(c, ok, bytes) ==
    [prompt |-> c.prompt, path |-> c.path, ok |-> ok, bytes |-> bytes,
     gen |-> c.gen]

\* lines 121-123 with get (79-86): cache hit, the cache file is copied to
\* output_path and the call returns
CacheHit(prompt, path) ==
    /\ cpc = "idle"
    /\ Len(calls) < MaxCalls
    /\ cache_exists(prompt)
    /\ ofiles' = [ofiles EXCEPT ![path] = cache[get_cache_path(prompt)]]
    /\ calls' = Append(calls,
          CallRecord([prompt |-> prompt, path |-> path, gen |-> 0], TRUE,
                     cache[get_cache_path(prompt)]))
    /\ UNCHANGED <<cache, cpc, ccur>>
    /\ UNCHANGED nonCacheVars

\* lines 121-126: cache miss
CacheMiss(prompt, path) ==
    /\ cpc = "idle"
    /\ Len(calls) < MaxCalls
    /\ ~cache_exists(prompt)
    /\ ccur' = [prompt |-> prompt, path |-> path, gen |-> 0]
    /\ cpc' = "generate"
    /\ UNCHANGED <<cache, ofiles, calls>>
    /\ UNCHANGED nonCacheVars

\* line 127: generate_fn writes an image to output_path and returns
CacheGenerate ==
    /\ cpc = "generate"
    /\ \E img \in Images : ofiles' = [ofiles EXCEPT ![ccur.path] = img]
    /\ ccur' = [ccur EXCEPT !.gen = @ + 1]
    /\ cpc' = "save"
    /\ UNCHANGED <<cache, calls>>
    /\ UNCHANGED nonCacheVars

\* line 127: generate_fn returns without writing (generate_image_openai and
\* generate_image_kieai report a failure by returning False)
CacheGenerateNothing ==
    /\ cpc = "generate"
    /\ ccur' = [ccur EXCEPT !.gen = @ + 1]
    /\ cpc' = "save"
    /\ UNCHANGED <<cache, ofiles, calls>>
    /\ UNCHANGED nonCacheVars

\* line 127: generate_fn raises; the exception leaves get_or_generate
CacheGenerateRaises ==
    /\ cpc = "generate"
    /\ calls' = Append(calls,
          CallRecord([ccur EXCEPT !.gen = @ + 1], FALSE, ofiles[ccur.path]))
    /\ ccur' = NoCall
    /\ cpc' = "idle"
    /\ UNCHANGED <<cache, ofiles>>
    /\ UNCHANGED nonCacheVars

\* lines 129-132: the output file is copied into the cache, the call returns
CacheSave ==
    /\ cpc = "save"
    /\ ofiles[ccur.path] # NoBytes
    /\ cache' = cache_save(ccur.prompt, ofiles[ccur.path])
    /\ calls' = Append(calls, CallRecord(ccur, TRUE, ofiles[ccur.path]))
    /\ ccur' = NoCall
    /\ cpc' = "idle"
    /\ UNCHANGED ofiles
    /\ UNCHANGED nonCacheVars

\* line 130: nothing is at output_path, shutil.copy2 raises
CacheSaveRaises ==
    /\ cpc = "save"
    /\ ofiles[ccur.path] = NoBytes
    /\ calls' = Append(calls, CallRecord(ccur, FALSE, NoBytes))
    /\ ccur' = NoCall
    /\ cpc' = "idle"
    /\ UNCHANGED <<cache, ofiles>>
    /\ UNCHANGED nonCacheVars

CacheNext ==
    \/ \E prompt \in Prompts, path \in Paths : CacheHit(prompt, path)
    \/ \E prompt \in Prompts, path \in Paths : CacheMiss(prompt, path)
    \/ CacheGenerate
    \/ CacheGenerateNothing
    \/ CacheGenerateRaises
    \/ CacheSave
    \/ CacheSaveRaises

(***************************************************************************)
(* Image generator: generate_images_from_script (2_image_gen.py)           *)
(***************************************************************************)
\* bytes left at output_path by a download that broke off (download_file
\* opens the file before it reads the stream)
PartialBytes == "partial"

ImgTurns ==
    { [has_prompt |-> FALSE, image_prompt |-> <<>>],
      [has_prompt |-> TRUE,  image_prompt |-> <<"A">>],
      [has_prompt |-> TRUE,  image_prompt |-> <<"B">>] }

ImgScripts == UNION { [1..n -> ImgTurns] : n \in 1..MaxImgTurns }

Methods == {"kieai", "openai", "dalle2"}

ImageIdle ==
    /\ iscript = <<>>
    /\ method = "kieai"
    /\ client_ok = FALSE
    /\ ifiles = [i \in 1..MaxImgTurns |-> NoBytes]
    /\ ipc = "idle"
    /\ ii = 1
    /\ image_map = {}
    /\ outImageMap = {}
    /\ backendCalls = [i \in 1..MaxImgTurns |-> 0]
    /\ ievents = [i \in 1..MaxImgTurns |-> <<>>]
    /\ iexisted = {}
    /\ isucceeded = {}
    /\ ifailed = {}

ImageInit ==
    /\ iscript \in ImgScripts
    /\ method \in Methods
    /\ client_ok \in BOOLEAN
    /\ ifiles \in [1..MaxImgTurns -> {NoBytes, OldBytes}]
    /\ \A i \in 1..MaxImgTurns : i > Len(iscript) => ifiles[i] = NoBytes
    /\ cache \in [CachePaths -> {NoBytes, OldBytes}]
    /\ \A p \in Prompts : cache[get_cache_path(p)] = NoBytes
    /\ ipc = "loop"
    /\ ii = 1
    /\ image_map = {}
    /\ outImageMap = {}
    /\ backendCalls = [i \in 1..MaxImgTurns |-> 0]
    /\ ievents = [i \in 1..MaxImgTurns |-> <<>>]
    /\ iexisted = {}
    /\ isucceeded = {}
    /\ ifailed = {}

ImgInLoop == ipc = "loop" /\ ii <= Len(iscript)

\* lines 153-162: the turn has a prompt and its output file is missing
ImgNeedsImage ==
    /\ ImgInLoop
    /\ iscript[ii].has_prompt
    /\ ifiles[ii] = NoBytes

ImgNextTurn == ii' = ii + 1 /\ ipc' = "loop"

Event(e) == ievents' = [ievents EXCEPT ![ii] = Append(@, e)]
BackendCalled == backendCalls' = [backendCalls EXCEPT ![ii] = @ + 1]

\* lines 173-174: success, the turn enters image_map
ImgSuccess ==
    /\ image_map' = image_map \cup {ii}
    /\ isucceeded' = isucceeded \cup {ii}
    /\ ImgNextTurn
    /\ UNCHANGED <<ifailed, iexisted>>

\* success is False, the turn stays out of image_map
ImgFailure ==
    /\ ifailed' = ifailed \cup {ii}
    /\ ImgNextTurn
    /\ UNCHANGED <<image_map, isucceeded, iexisted>>

\* the prompt under which generate_image_kieai looks into the cache
StyledPrompt == transform_to_irasutoya_style(iscript[ii].image_prompt)

\* lines 150-151: no image_prompt
ImgNoPrompt ==
    /\ ImgInLoop
    /\ ~iscript[ii].has_prompt
    /\ ImgNextTurn
    /\ UNCHANGED <<iscript, method, client_ok, ifiles, image_map, outImageMap,
                   backendCalls, ievents, iexisted, isucceeded, ifailed, cache>>
    /\ UNCHANGED nonImageVars

\* lines 156-160: the output file exists
ImgSkipExisting ==
    /\ ImgInLoop
    /\ iscript[ii].has_prompt
    /\ ifiles[ii] # NoBytes
    /\ image_map' = image_map \cup {ii}
    /\ iexisted' = iexisted \cup {ii}
    /\ ImgNextTurn
    /\ UNCHANGED <<iscript, method, client_ok, ifiles, outImageMap,
                   backendCalls, ievents, isucceeded, ifailed, cache>>
    /\ UNCHANGED nonImageVars

\* lines 169-171: unsupported method
ImgUnknownMethod ==
    /\ ImgNeedsImage
    /\ method \notin {"openai", "kieai"}
    /\ ImgNextTurn
    /\ UNCHANGED <<iscript, method, client_ok, ifiles, image_map, outImageMap,
                   backendCalls, ievents, iexisted, isucceeded, ifailed, cache>>
    /\ UNCHANGED nonImageVars

\* generate_image_openai, lines 50-52: no client
ImgOpenaiNoClient ==
    /\ ImgNeedsImage
    /\ method = "openai"
    /\ ~client_ok
    /\ ImgFailure
    /\ UNCHANGED <<iscript, method, client_ok, ifiles, outImageMap,
                   backendCalls, ievents, cache>>
    /\ UNCHANGED nonImageVars

\* generate_image_openai, lines 54-73: DALL-E is called, the image saved
ImgOpenaiGenerate ==
    /\ ImgNeedsImage
    /\ method = "openai"
    /\ client_ok
    /\ BackendCalled
    /\ Event("backend_ok")
    /\ \E img \in Images : ifiles' = [ifiles EXCEPT ![ii] = img]
    /\ ImgSuccess
    /\ UNCHANGED <<iscript, method, client_ok, outImageMap, cache>>
    /\ UNCHANGED nonImageVars

\* generate_image_openai, lines 75-77: the call or the download raises
ImgOpenaiFails ==
    /\ ImgNeedsImage
    /\ method = "openai"
    /\ client_ok
    /\ BackendCalled
    /\ Event("backend_failed")
    /\ ImgFailure
    /\ UNCHANGED <<iscript, method, client_ok, ifiles, outImageMap, cache>>
    /\ UNCHANGED nonImageVars

\* generate_image_kieai, lines 91-93: no client
ImgKieaiNoClient ==
    /\ ImgNeedsImage
    /\ method = "kieai"
    /\ ~client_ok
    /\ ImgFailure
    /\ UNCHANGED <<iscript, method, client_ok, ifiles, outImageMap,
                   backendCalls, ievents, cache>>
    /\ UNCHANGED nonImageVars

\* generate_image_kieai, lines 100-103: cache hit, the cache file is copied
ImgKieaiCacheHit ==
    /\ ImgNeedsImage
    /\ method = "kieai"
    /\ client_ok
    /\ cache_exists(StyledPrompt)
    /\ Event("cache_hit")
    /\ ifiles' = [ifiles EXCEPT ![ii] = cache[get_cache_path(StyledPrompt)]]
    /\ ImgSuccess
    /\ UNCHANGED <<iscript, method, client_ok, outImageMap, backendCalls,
                   cache>>
    /\ UNCHANGED nonImageVars

\* generate_image_kieai, line 101: cache miss
ImgKieaiCacheMiss ==
    /\ ImgNeedsImage
    /\ method = "kieai"
    /\ client_ok
    /\ ~cache_exists(StyledPrompt)
    /\ Event("cache_miss")
    /\ ipc' = "kieai_call"
    /\ UNCHANGED <<iscript, method, client_ok, ifiles, ii, image_map,
                   outImageMap, backendCalls, iexisted, isucceeded, ifailed,
                   cache>>
    /\ UNCHANGED nonImageVars

\* lines 106-110: generate_and_download returns, the png is at output_path
ImgKieaiBackend ==
    /\ ipc = "kieai_call"
    /\ BackendCalled
    /\ Event("backend_ok")
    /\ \E img \in Images : ifiles' = [ifiles EXCEPT ![ii] = img]
    /\ ipc' = "kieai_save"
    /\ UNCHANGED <<iscript, method, client_ok, ii, image_map, outImageMap,
                   iexisted, isucceeded, ifailed, cache>>
    /\ UNCHANGED nonImageVars

\* (variant: a failed backend call is made again)
ImgKieaiBackendFails_Retries ==
    /\ ipc = "kieai_call"
    /\ backendCalls[ii] < 2
    /\ BackendCalled
    /\ Event("backend_failed")
    /\ UNCHANGED <<iscript, method, client_ok, ifiles, ipc, ii, image_map,
                   outImageMap, iexisted, isucceeded, ifailed, cache>>
    /\ UNCHANGED nonImageVars

\* lines 106-110 raising, caught at 118-120; the download may have left a
\* partial file
ImgKieaiBackendFails ==
    /\ ipc = "kieai_call"
    /\ BackendCalled
    /\ Event("backend_failed")
    /\ \E left \in {NoBytes, PartialBytes} :
          ifiles' = [ifiles EXCEPT ![ii] = left]
    /\ ImgFailure
    /\ UNCHANGED <<iscript, method, client_ok, outImageMap, cache>>
    /\ UNCHANGED nonImageVars

\* lines 112-116: the png is copied into the cache
ImgKieaiSave ==
    /\ ipc = "kieai_save"
    /\ Event("cache_save")
    /\ cache' = cache_save(StyledPrompt, ifiles[ii])
    /\ ImgSuccess
    /\ UNCHANGED <<iscript, method, client_ok, ifiles, outImageMap,
                   backendCalls>>
    /\ UNCHANGED nonImageVars

\* line 113 raising (the copy fails), caught at 118-120
ImgKieaiSaveFails ==
    /\ ipc = "kieai_save"
    /\ Event("cache_save_failed")
    /\ ImgFailure
    /\ UNCHANGED <<iscript, method, client_ok, ifiles, outImageMap,
                   backendCalls, cache>>
    /\ UNCHANGED nonImageVars

\* lines 176-183: image_map.json is written and the map returned
ImgFinish ==
    /\ ipc = "loop"
    /\ ii > Len(iscript)
    /\ outImageMap' = image_map
    /\ ipc' = "done"
    /\ UNCHANGED <<iscript, method, client_ok, ifiles, ii, image_map,
                   backendCalls, ievents, iexisted, isucceeded, ifailed, cache>>
    /\ UNCHANGED nonImageVars

ImageNext ==
    \/ ImgNoPrompt
    \/ ImgSkipExisting
    \/ ImgUnknownMethod
    \/ ImgOpenaiNoClient
    \/ ImgOpenaiGenerate
    \/ ImgOpenaiFails
    \/ ImgKieaiNoClient
    \/ ImgKieaiCacheHit
    \/ ImgKieaiCacheMiss
    \/ ImgKieaiBackend
    \/ ImgKieaiBackendFails
    \/ ImgKieaiSave
    \/ ImgKieaiSaveFails
    \/ ImgFinish

(***************************************************************************)
(* Voice generator: generate_voices_from_script                            *)
(***************************************************************************)
\* voice_path.exists()
Exists(i) == vfiles[i] # NoFile

\* lines 564-575: the turns whose basic voice text goes to the AI pass
indices_to_fix ==
    { i \in 1..Len(script) :
        /\ script[i].text # <<>>
        /\ script[i].role # "title_card"
        /\ ~Exists(i)
        /\ BasicVoiceText(script[i].text) # <<>> }

\* lines 639-651: the text that is sent to the TTS server for turn i
VoiceTextOf(i) ==
    IF i \in DOMAIN ai_fixed_texts THEN ai_fixed_texts[i]
    ELSE BasicVoiceText(script[i].text)

\* duration recorded in a subtitle entry for a measured length (633, 689)
EntryDuration(len) == len + INTER_SCENE_GAP
\* (variant: the running total advances by the bare length)
TimeAdvance_NoGap(len) == len
\* amount added to current_time for a measured length (634, 690)
TimeAdvance(len) == len + INTER_SCENE_GAP
\* duration and advance of a placeholder entry (617-618, 655-656)
PlaceholderDuration == TITLE_CARD_DURATION + INTER_SCENE_GAP
\* (variant: the running total advances by the bare placeholder length)
PlaceholderAdvance_NoGap == TITLE_CARD_DURATION
PlaceholderAdvance == TITLE_CARD_DURATION + INTER_SCENE_GAP

\* subtitle_entry (lines 604-611) with its duration filled in
SubtitleEntry(i, dur) ==
    [index |-> i, role |-> script[i].role, text |-> script[i].text,
     start_time |-> current_time, duration |-> dur]

\* VoicevoxClient.synthesize: the wav returned by the server for the text,
\* written to output_path as it is
Synthesized(text) == [len |-> MsPerChar * Len(text), speed |-> 0, norm |-> 0]

\* get_audio_duration: len(audio) of the file
get_audio_duration(f) == f.len

\* adjust_audio_speed: the frame rate is scaled by speed and the samples kept
adjust_audio_speed(f, pct) ==
    [f EXCEPT !.len = (f.len * 100) \div pct, !.speed = f.speed + 1]

\* normalize_audio_volume: gain applied, file exported again (the files of
\* the model are not silent; a silent file is returned as it is)
normalize_audio_volume(f) == [f EXCEPT !.norm = f.norm + 1]

\* What an earlier run on the same script may have left at a turn's path
\* (VOICES_DIR is never cleared): nothing; the synthesized wav (a later step
\* of that run raised); the wav after the speed change only; the finished
\* wav.  Title cards, empty turns and turns without voice text get no file.
LeftByEarlierRun(turn) ==
    IF turn.role = "title_card" \/ BasicVoiceText(turn.text) = <<>>
    THEN {NoFile}
    ELSE LET raw  == Synthesized(BasicVoiceText(turn.text))
             sped == IF SpeedPct(turn.role) # 100
                     THEN adjust_audio_speed(raw, SpeedPct(turn.role))
                     ELSE raw
         IN  {NoFile, raw, sped, normalize_audio_volume(sped)}

PriorFiles == UNION { LeftByEarlierRun(t) : t \in Turns }

VoiceInit ==
    /\ script \in Scripts
    /\ vfiles \in [1..MaxTurns -> PriorFiles]
    /\ \A i \in 1..MaxTurns :
          vfiles[i] \in IF i <= Len(script) THEN LeftByEarlierRun(script[i])
                        ELSE {NoFile}
    /\ vpc = "start"
    /\ vi = 1
    /\ ai_fixed_texts = EmptyMap
    /\ voice_map = {}
    /\ subtitles = <<>>
    /\ current_time = 0
    /\ outVoiceMap = {}
    /\ outSubtitles = NotWritten
    /\ ttsCalls = [i \in 1..MaxTurns |-> 0]
    /\ ttsFailed = {}
    /\ reachedExisting = {}
    /\ stepFailed = {}

\* The loop moves to the next turn (continue, or the end of the loop body).
NextTurn == vi' = vi + 1 /\ vpc' = "loop"

InLoop == vpc = "loop" /\ vi <= Len(script)

\* lines 534-536: VOICEVOX cannot be started, RuntimeError
VoiceLauncherFails ==
    /\ vpc = "start"
    /\ vpc' = "aborted"
    /\ UNCHANGED <<script, vfiles, vi, ai_fixed_texts, voice_map,
                   subtitles, current_time, outVoiceMap, outSubtitles,
                   ttsCalls, ttsFailed, reachedExisting, stepFailed>>
    /\ UNCHANGED nonVoiceVars

\* lines 538-596: the script is loaded; when use_ai_fix is set and Gemini is
\* configured, the AI pass fixes the texts that need generation (each fixed
\* text is what the LLM wrote on its numbered line: the text unchanged, or
\* nothing); the accumulators are cleared.
VoiceStart ==
    /\ vpc = "start"
    /\ \E use_ai \in BOOLEAN :
          IF use_ai
          THEN \E blank \in SUBSET indices_to_fix :
                  ai_fixed_texts' =
                      [i \in indices_to_fix |->
                          IF i \in blank THEN <<>>
                          ELSE BasicVoiceText(script[i].text)]
          ELSE ai_fixed_texts' = EmptyMap
    /\ voice_map' = {}
    /\ subtitles' = <<>>
    /\ current_time' = 0
    /\ vi' = 1
    /\ vpc' = "loop"
    /\ UNCHANGED <<script, vfiles, outVoiceMap, outSubtitles,
                   ttsCalls, ttsFailed, reachedExisting, stepFailed>>
    /\ UNCHANGED nonVoiceVars

\* lines 613-620: a title card has no audio and a placeholder entry
VoiceTitleCard ==
    /\ InLoop
    /\ script[vi].role = "title_card"
    /\ subtitles' = Append(subtitles, SubtitleEntry(vi, PlaceholderDuration))
    /\ current_time' = current_time + PlaceholderAdvance
    /\ NextTurn
    /\ UNCHANGED <<script, vfiles, ai_fixed_texts, voice_map,
                   outVoiceMap, outSubtitles, ttsCalls, ttsFailed,
                   reachedExisting, stepFailed>>
    /\ UNCHANGED nonVoiceVars

\* lines 622-624: a turn without text is skipped
VoiceEmptyText ==
    /\ InLoop
    /\ script[vi].role # "title_card"
    /\ script[vi].text = <<>>
    /\ NextTurn
    /\ UNCHANGED <<script, vfiles, ai_fixed_texts, voice_map,
                   subtitles, current_time, outVoiceMap, outSubtitles,
                   ttsCalls, ttsFailed, reachedExisting, stepFailed>>
    /\ UNCHANGED nonVoiceVars

ReachesFile ==
    /\ InLoop
    /\ script[vi].role # "title_card"
    /\ script[vi].text # <<>>

\* (variant: the existing file is normalized again before it is measured)
VoiceExisting_Renormalizes ==
    /\ ReachesFile
    /\ Exists(vi)
    /\ reachedExisting' = reachedExisting \cup {vi}
    /\ vfiles' = [vfiles EXCEPT ![vi] = normalize_audio_volume(@)]
    /\ voice_map' = voice_map \cup {vi}
    /\ subtitles' = Append(subtitles,
          SubtitleEntry(vi, EntryDuration(get_audio_duration(vfiles[vi]))))
    /\ current_time' = current_time + TimeAdvance(get_audio_duration(vfiles[vi]))
    /\ NextTurn
    /\ UNCHANGED <<script, ai_fixed_texts, outVoiceMap,
                   outSubtitles, ttsCalls, ttsFailed, stepFailed>>
    /\ UNCHANGED nonVoiceVars

\* lines 626-636: the file exists, its length is measured
VoiceExisting ==
    /\ ReachesFile
    /\ Exists(vi)
    /\ reachedExisting' = reachedExisting \cup {vi}
    /\ voice_map' = voice_map \cup {vi}
    /\ subtitles' = Append(subtitles,
          SubtitleEntry(vi, EntryDuration(get_audio_duration(vfiles[vi]))))
    /\ current_time' = current_time + TimeAdvance(get_audio_duration(vfiles[vi]))
    /\ NextTurn
    /\ UNCHANGED <<script, vfiles, ai_fixed_texts, outVoiceMap,
                   outSubtitles, ttsCalls, ttsFailed, stepFailed>>
    /\ UNCHANGED nonVoiceVars

\* line 629 is outside the try block: when the file cannot be decoded the
\* exception leaves generate_voices_from_script
VoiceExistingUnreadable ==
    /\ ReachesFile
    /\ Exists(vi)
    /\ reachedExisting' = reachedExisting \cup {vi}
    /\ vpc' = "aborted"
    /\ UNCHANGED <<script, vfiles, vi, ai_fixed_texts, voice_map,
                   subtitles, current_time, outVoiceMap, outSubtitles,
                   ttsCalls, ttsFailed, stepFailed>>
    /\ UNCHANGED nonVoiceVars

\* (variant: a turn with nothing left to speak is skipped like an empty turn)
VoiceNoVoiceText_Skips ==
    /\ ReachesFile
    /\ ~Exists(vi)
    /\ VoiceTextOf(vi) = <<>>
    /\ NextTurn
    /\ UNCHANGED <<script, vfiles, ai_fixed_texts, voice_map,
                   subtitles, current_time, outVoiceMap, outSubtitles,
                   ttsCalls, ttsFailed, reachedExisting, stepFailed>>
    /\ UNCHANGED nonVoiceVars

\* lines 653-658: nothing is left to speak, placeholder entry
VoiceNoVoiceText ==
    /\ ReachesFile
    /\ ~Exists(vi)
    /\ VoiceTextOf(vi) = <<>>
    /\ subtitles' = Append(subtitles, SubtitleEntry(vi, PlaceholderDuration))
    /\ current_time' = current_time + PlaceholderAdvance
    /\ NextTurn
    /\ UNCHANGED <<script, vfiles, ai_fixed_texts, voice_map,
                   outVoiceMap, outSubtitles, ttsCalls, ttsFailed,
                   reachedExisting, stepFailed>>
    /\ UNCHANGED nonVoiceVars

CallsTts ==
    /\ ReachesFile
    /\ ~Exists(vi)
    /\ VoiceTextOf(vi) # <<>>
    /\ ttsCalls' = [ttsCalls EXCEPT ![vi] = @ + 1]

\* lines 667-671 with VoicevoxClient.synthesize: the audio is written
VoiceSynthesize ==
    /\ CallsTts
    /\ vfiles' = [vfiles EXCEPT ![vi] = Synthesized(VoiceTextOf(vi))]
    /\ vpc' = "speed"
    /\ UNCHANGED <<script, vi, ai_fixed_texts, voice_map, subtitles,
                   current_time, outVoiceMap, outSubtitles, ttsFailed,
                   reachedExisting, stepFailed>>
    /\ UNCHANGED nonVoiceVars

\* (variant: a failed call is given a placeholder entry)
VoiceSynthesizeFails_Placeholder ==
    /\ CallsTts
    /\ ttsFailed' = ttsFailed \cup {vi}
    /\ subtitles' = Append(subtitles, SubtitleEntry(vi, PlaceholderDuration))
    /\ current_time' = current_time + PlaceholderAdvance
    /\ NextTurn
    /\ UNCHANGED <<script, vfiles, ai_fixed_texts, voice_map,
                   outVoiceMap, outSubtitles, reachedExisting, stepFailed>>
    /\ UNCHANGED nonVoiceVars

\* the same call raising (synthesize raises before it opens the file);
\* lines 693-695 catch it and continue
VoiceSynthesizeFails ==
    /\ CallsTts
    /\ ttsFailed' = ttsFailed \cup {vi}
    /\ NextTurn
    /\ UNCHANGED <<script, vfiles, ai_fixed_texts, voice_map, subtitles,
                   current_time, outVoiceMap, outSubtitles, reachedExisting,
                   stepFailed>>
    /\ UNCHANGED nonVoiceVars

\* lines 673-677: speed adjustment when the role has one
VoiceSpeed ==
    /\ vpc = "speed"
    /\ vfiles' = IF SpeedPct(script[vi].role) # 100
                 THEN [vfiles EXCEPT ![vi] =
                          adjust_audio_speed(@, SpeedPct(script[vi].role))]
                 ELSE vfiles
    /\ vpc' = "norm"
    /\ UNCHANGED <<script, vi, ai_fixed_texts, voice_map, subtitles,
                   current_time, outVoiceMap, outSubtitles, ttsCalls,
                   ttsFailed, reachedExisting, stepFailed>>
    /\ UNCHANGED nonVoiceVars

\* adjust_audio_speed raising; caught at 693-695
VoiceSpeedFails ==
    /\ vpc = "speed"
    /\ SpeedPct(script[vi].role) # 100
    /\ stepFailed' = stepFailed \cup {vi}
    /\ NextTurn
    /\ UNCHANGED <<script, vfiles, ai_fixed_texts, voice_map, subtitles,
                   current_time, outVoiceMap, outSubtitles, ttsCalls,
                   ttsFailed, reachedExisting>>
    /\ UNCHANGED nonVoiceVars

\* lines 679-683: loudness normalization, then voice_map[i] is set
VoiceNormalize ==
    /\ vpc = "norm"
    /\ vfiles' = [vfiles EXCEPT ![vi] = normalize_audio_volume(@)]
    /\ voice_map' = voice_map \cup {vi}
    /\ vpc' = "measure"
    /\ UNCHANGED <<script, vi, ai_fixed_texts, subtitles, current_time,
                   outVoiceMap, outSubtitles, ttsCalls, ttsFailed,
                   reachedExisting, stepFailed>>
    /\ UNCHANGED nonVoiceVars

\* normalize_audio_volume raising; caught at 693-695
VoiceNormalizeFails ==
    /\ vpc = "norm"
    /\ stepFailed' = stepFailed \cup {vi}
    /\ NextTurn
    /\ UNCHANGED <<script, vfiles, ai_fixed_texts, voice_map, subtitles,
                   current_time, outVoiceMap, outSubtitles, ttsCalls,
                   ttsFailed, reachedExisting>>
    /\ UNCHANGED nonVoiceVars

\* lines 685-691: the final length is measured and the entry appended
VoiceMeasure ==
    /\ vpc = "measure"
    /\ subtitles' = Append(subtitles,
          SubtitleEntry(vi, EntryDuration(get_audio_duration(vfiles[vi]))))
    /\ current_time' = current_time + TimeAdvance(get_audio_duration(vfiles[vi]))
    /\ NextTurn
    /\ UNCHANGED <<script, vfiles, ai_fixed_texts, voice_map,
                   outVoiceMap, outSubtitles, ttsCalls, ttsFailed,
                   reachedExisting, stepFailed>>
    /\ UNCHANGED nonVoiceVars

\* get_audio_duration raising at line 686; caught at 693-695
VoiceMeasureFails ==
    /\ vpc = "measure"
    /\ stepFailed' = stepFailed \cup {vi}
    /\ NextTurn
    /\ UNCHANGED <<script, vfiles, ai_fixed_texts, voice_map, subtitles,
                   current_time, outVoiceMap, outSubtitles, ttsCalls,
                   ttsFailed, reachedExisting>>
    /\ UNCHANGED nonVoiceVars

\* lines 697-719: voice_map.json and subtitles.json are written
VoiceFinish ==
    /\ vpc = "loop"
    /\ vi > Len(script)
    /\ outVoiceMap' = voice_map
    /\ outSubtitles' = [written |-> TRUE, total_duration |-> current_time,
                        subtitles |-> subtitles]
    /\ vpc' = "done"
    /\ UNCHANGED <<script, vfiles, vi, ai_fixed_texts, voice_map,
                   subtitles, current_time, ttsCalls, ttsFailed,
                   reachedExisting, stepFailed>>
    /\ UNCHANGED nonVoiceVars

VoiceNext ==
    \/ VoiceLauncherFails
    \/ VoiceStart
    \/ VoiceTitleCard
    \/ VoiceEmptyText
    \/ VoiceExisting
    \/ VoiceExistingUnreadable
    \/ VoiceNoVoiceText
    \/ VoiceSynthesize
    \/ VoiceSynthesizeFails
    \/ VoiceSpeed
    \/ VoiceSpeedFails
    \/ VoiceNormalize
    \/ VoiceNormalizeFails
    \/ VoiceMeasure
    \/ VoiceMeasureFails
    \/ VoiceFinish

InitVoice == VoiceInit /\ CacheIdle /\ ImageIdle /\ ScriptIdle /\ LaterIdle

SpecVoice == InitVoice /\ [][VoiceNext]_vars

(***************************************************************************)
(* Properties of the voice generator                                       *)
(***************************************************************************)
Written == outSubtitles.written
\* the run has returned: what is on disk is what this run wrote
Returned == vpc = "done"

EntriesOf(subs, i) == { k \in 1..Len(subs) : subs[k].index = i }
TitleTurns == { i \in 1..Len(script) : script[i].role = "title_card" }
SpeechTurns ==
    { i \in 1..Len(script) :
        script[i].role # "title_card" /\ script[i].text # <<>> }
AudioTurns == { i \in 1..Len(script) : Exists(i) }

\* C1: in the timeline written to subtitles.json every entry starts where
\* the entry before it ends: start_time[k+1] = start_time[k] + duration[k].
C1_TimelineContiguous ==
    Written =>
        \A k \in 1..(Len(outSubtitles.subtitles) - 1) :
            outSubtitles.subtitles[k + 1].start_time =
                outSubtitles.subtitles[k].start_time
                    + outSubtitles.subtitles[k].duration

\* a run that met an existing file and a failed TTS call and wrote a
\* timeline of at least two entries, the first of them an audio entry
C1_Witness ==
    /\ Returned
    /\ reachedExisting # {}
    /\ ttsFailed # {}
    /\ Len(outSubtitles.subtitles) >= 2
    /\ outSubtitles.subtitles[1].index \in outVoiceMap

\* C2: total_duration of subtitles.json is the end time of the last entry.
C2_TotalIsLastEnd ==
    (Written /\ Len(outSubtitles.subtitles) > 0) =>
        LET last == outSubtitles.subtitles[Len(outSubtitles.subtitles)]
        IN  outSubtitles.total_duration = last.start_time + last.duration

\* a written timeline that ends with a title card after an audio entry
C2_Witness ==
    /\ Returned
    /\ Len(outSubtitles.subtitles) >= 2
    /\ outSubtitles.subtitles[Len(outSubtitles.subtitles)].role = "title_card"
    /\ outSubtitles.subtitles[1].index \in outVoiceMap
    /\ outSubtitles.total_duration > 0

\* C3: after the run, every key of the voice map is the index of exactly one
\* timeline entry, every entry's index is a position of the script and
\* occurs once, and the entries are in increasing index order.
C3_IndicesAgree ==
    Returned =>
        /\ \A i \in outVoiceMap :
              Cardinality(EntriesOf(outSubtitles.subtitles, i)) = 1
        /\ \A k \in 1..Len(outSubtitles.subtitles) :
              /\ outSubtitles.subtitles[k].index \in 1..Len(script)
              /\ Cardinality(EntriesOf(outSubtitles.subtitles,
                                       outSubtitles.subtitles[k].index)) = 1
        /\ \A k \in 1..(Len(outSubtitles.subtitles) - 1) :
              outSubtitles.subtitles[k].index
                  < outSubtitles.subtitles[k + 1].index

\* C4: a turn whose TTS call failed is in neither the voice map nor the
\* timeline, and the failing step leaves the running time as it is and moves
\* the loop to the next turn.
C4_FailedTurnInv ==
    /\ \A i \in ttsFailed :
          /\ i \notin voice_map
          /\ EntriesOf(subtitles, i) = {}
    /\ Returned =>
          \A i \in ttsFailed :
              /\ i \notin outVoiceMap
              /\ EntriesOf(outSubtitles.subtitles, i) = {}
              /\ vi = Len(script) + 1

C4_FailedTurnStep ==
    (ttsFailed' # ttsFailed /\ ttsFailed' # {}) =>
        /\ current_time' = current_time
        /\ subtitles' = subtitles
        /\ voice_map' = voice_map
        /\ vi' = vi + 1
        /\ vpc' = "loop"

C4_TtsFailureDropsTurn == [](C4_FailedTurnInv) /\ [][C4_FailedTurnStep]_vars

\* a TTS call failed and a later turn made it into the written timeline
C4_Witness ==
    /\ Returned
    /\ \E i \in ttsFailed :
          \E k \in 1..Len(outSubtitles.subtitles) :
              /\ outSubtitles.subtitles[k].index > i
              /\ outSubtitles.subtitles[k].index \in outVoiceMap
              /\ outSubtitles.subtitles[k].start_time > 0

\* C5: the step that reaches a turn whose audio file exists makes no TTS
\* call and leaves every file as it is; when the measurement returns, the
\* turn is in the voice map and the timeline gains one entry for it whose
\* duration is the length of the file plus the inter-turn gap.
C5_ExistingStep ==
    (reachedExisting' # reachedExisting /\ reachedExisting' # {}) =>
        /\ ttsCalls' = ttsCalls
        /\ vfiles' = vfiles
        /\ vpc' # "aborted" =>
              /\ vi \in voice_map'
              /\ Len(subtitles') = Len(subtitles) + 1
              /\ subtitles'[Len(subtitles')].index = vi
              /\ subtitles'[Len(subtitles')].start_time = current_time
              /\ subtitles'[Len(subtitles')].duration =
                     vfiles[vi].len + INTER_SCENE_GAP

C5_ExistingNoTts == \A i \in reachedExisting : ttsCalls[i] = 0

SilentTurns == { i \in SpeechTurns : ~Exists(i) /\ VoiceTextOf(i) = <<>> }

VoiceIdle ==
    /\ script = <<>>
    /\ vfiles = [i \in 1..MaxTurns |-> NoFile]
    /\ vpc = "idle"
    /\ vi = 1
    /\ ai_fixed_texts = EmptyMap
    /\ voice_map = {}
    /\ subtitles = <<>>
    /\ current_time = 0
    /\ outVoiceMap = {}
    /\ outSubtitles = NotWritten
    /\ ttsCalls = [i \in 1..MaxTurns |-> 0]
    /\ ttsFailed = {}
    /\ reachedExisting = {}
    /\ stepFailed = {}

InitCache == CacheInit /\ VoiceIdle /\ ImageIdle /\ ScriptIdle /\ LaterIdle

SpecCache == InitCache /\ [][CacheNext]_vars

CacheCallsIdle ==
    /\ ofiles = [q \in Paths |-> NoBytes]
    /\ cpc = "idle"
    /\ ccur = NoCall
    /\ calls = <<>>

InitImage ==
    ImageInit /\ VoiceIdle /\ CacheCallsIdle /\ ScriptIdle /\ LaterIdle

SpecImage == InitImage /\ [][ImageNext]_vars

IsBackendEvent(e) == e \in {"backend_ok", "backend_failed"}

\* the cache discipline of one turn's events: a backend call comes right
\* after a cache miss, and a backend call that returned is followed, once the
\* turn is over, by the save into the cache
CacheDiscipline(i) ==
    \A k \in 1..Len(ievents[i]) :
        /\ IsBackendEvent(ievents[i][k]) =>
              k > 1 /\ ievents[i][k - 1] = "cache_miss"
        /\ (ievents[i][k] = "backend_ok" /\ (i < ii \/ ipc = "done")) =>
              /\ k < Len(ievents[i])
              /\ ievents[i][k + 1] \in {"cache_save", "cache_save_failed"}

\* C8: for every turn with an image_prompt whose output file is missing, the
\* cache is checked before the backend is called, the backend is called only
\* on a miss, and the cache is updated after a backend call that succeeded;
\* with method kieai and with method openai.
C8_CacheBeforeBackend ==
    \A i \in 1..Len(iscript) : CacheDiscipline(i)

\* the same, for method kieai only
C8_CacheBeforeBackendKieai ==
    method = "kieai" => \A i \in 1..Len(iscript) : CacheDiscipline(i)

\* C9: the backend is called at most once per turn; a turn whose generation
\* fails stays out of the image map and the loop goes on with the next turn;
\* the map that is returned holds exactly the turns whose output file
\* existed or whose generation succeeded.
C9_ImageInv ==
    /\ \A i \in 1..MaxImgTurns : backendCalls[i] <= 1
    /\ ifailed \cap image_map = {}
    /\ ipc = "done" =>
          /\ outImageMap = iexisted \cup isucceeded
          /\ ii = Len(iscript) + 1

C9_FailureStep ==
    ifailed' # ifailed =>
        /\ ii' = ii + 1
        /\ ipc' = "loop"
        /\ image_map' = image_map

C9_FailureSkipsTurn == [](C9_ImageInv) /\ [][C9_FailureStep]_vars

\* a run in which a turn failed at the backend and a later turn was generated
C9_Witness ==
    /\ ipc = "done"
    /\ \E i \in ifailed :
          /\ backendCalls[i] = 1
          /\ \E j \in isucceeded : j > i /\ backendCalls[j] = 1 /\ j \in outImageMap
    /\ iexisted # {}

(***************************************************************************)
(* Script generator: specification and properties                          *)
(***************************************************************************)
InitScript == ScriptInit /\ VoiceIdle /\ CacheIdle /\ ImageIdle /\ LaterIdle

SpecScript == InitScript /\ [][ScriptNext]_vars

\* C10: each half sends at most 3 LLM requests; when the third response of
\* a half cannot be parsed even after the repair pass, generate_script ends
\* with the JSON error and has written no script file.
C10_BoundedRetry ==
    /\ \A h \in 1..2 : requests[h] <= 3
    /\ \A h \in 1..2 :
          parseFailures[h] = 3 =>
              /\ spc = "failed"
              /\ serror = "JSONDecodeError"
              /\ scriptWrites = 0
    /\ spc = "failed" => scriptWrites = 0

\* the first half needed a retry, the second half failed three times
C10_Witness ==
    /\ requests[1] = 2
    /\ parseFailures[1] = 1
    /\ part1.kind = "array"
    /\ requests[2] = 3
    /\ parseFailures[2] = 3
    /\ spc = "failed"

\* C11: the second half is requested only after the first half was parsed
\* into a list; the second prompt carries the last five turns of the first
\* half (all of them when there are fewer); the script written and returned
\* is the first half followed by the second half, each in its order.
C11_HalvesInOrder ==
    /\ requests[2] > 0 => part1.kind = "array"
    /\ spc \in {"part2", "merge", "done"} =>
          LET n == Len(part1.items)
              m == Len(last_entries)
          IN  /\ m = IF n < 5 THEN n ELSE 5
              /\ \A k \in 1..m : last_entries[k] = part1.items[n - m + k]
    /\ spc = "done" =>
          /\ scriptFile.exists
          /\ Len(scriptFile.turns) = Len(part1.items) + Len(part2.items)
          /\ \A k \in 1..Len(part1.items) :
                scriptFile.turns[k] = part1.items[k]
          /\ \A k \in 1..Len(part2.items) :
                scriptFile.turns[Len(part1.items) + k] = part2.items[k]

\* a first half of six turns, parsed on the second attempt, and a second
\* half of two turns were merged
C11_Witness ==
    /\ spc = "done"
    /\ parseFailures[1] = 1
    /\ Len(part1.items) = 6
    /\ Len(last_entries) = 5
    /\ Len(part2.items) = 2
    /\ scriptFile.turns # OldScript.turns

\* C12: a script that generate_script returns and writes holds at least 170
\* turns.
C12_AtLeast170Turns ==
    spc = "done" => Len(scriptFile.turns) >= 2 * MIN_ELEMENTS_PER_HALF

(***************************************************************************)
(* _extract_json on a response that was cut off                            *)
(***************************************************************************)
\* turn objects of the response before it was cut
MaxObjs == 3

\* the texts a turn may hold (quotes and newlines inside a JSON string are
\* escaped, so a text holds neither "q" nor "nl")
Texts ==
    { <<"a">>, <<"b">>, <<>>,
      <<"a", ",", "]">>,
      <<"a", "}">>,
      <<"}", ",", "a", "]">> }

Layouts == {"plain", "fenced"}

\* the well-formed response: the array, inside a code fence or not
Untruncated(texts, layout) ==
    IF layout = "fenced"
    THEN <<"FENCE", "json", "nl">> \o ArrayOf(texts) \o <<"nl", "FENCE">>
    ELSE ArrayOf(texts)

\* the response cut inside turn object k, m characters of that object kept
TruncatedResponse(a) ==
    LET full   == Untruncated(a.texts, a.layout)
        before == (IF a.layout = "fenced" THEN 3 ELSE 0) + 1
                  + Len(ArrayBody(SubSeq(a.texts, 1, a.k - 1))) + 1
    IN  SubSeq(full, 1, before + a.m)

CutsOf(t) ==
    UNION { { [texts |-> t, layout |-> l, k |-> k, m |-> m] :
                l \in Layouts, m \in 1..(Len(t[k]) + 3) } :
            k \in 2..Len(t) }

\* the cut responses of at most max turn objects
TruncatedArgs(max) ==
    UNION { UNION { CutsOf(t) : t \in [1..n -> Texts] } : n \in 2..max }

ExtractInit ==
    /\ arg \in TruncatedArgs(MaxObjs)
    /\ ret = NotReturned
    /\ fpc = "called"

\* _extract_json(content)
ExtractJson ==
    /\ fpc = "called"
    /\ ret' = extract_json(TruncatedResponse(arg))
    /\ fpc' = "returned"
    /\ UNCHANGED arg
    /\ UNCHANGED nonCallVars

\* the stages of the pipeline before the call
EarlyIdle == VoiceIdle /\ CacheIdle /\ ImageIdle /\ ScriptIdle

InitExtract == ExtractInit /\ EarlyIdle /\ ReadingIdle /\ NumberIdle /\ LastIdle

SpecExtract == InitExtract /\ [][ExtractJson]_vars

\* C13: for a well-formed array of turn objects cut off inside an object,
\* with a complete object before the cut, _extract_json returns a non-empty
\* array whose turns are the first turns of the untruncated response, fewer
\* than all of them.
C13_TruncatedIsPrefix ==
    fpc = "returned" =>
        /\ ret.kind = "array"
        /\ Len(ret.items) >= 1
        /\ Len(ret.items) < Len(arg.texts)
        /\ \A k \in 1..Len(ret.items) : ret.items[k] = arg.texts[k]

(***************************************************************************)
(* apply_reading_dict, one pass of the loop at a time                      *)
(***************************************************************************)
\* pieces a text is put together from
MaxPieces == 3

Pieces ==
    { <<"1", "0", "0", "0", "MAN">>,
      <<"1", "0", "0", "MAN">>,
      <<"TEI", "KI", "YO">>,
      <<"TEI", "KI", "YO", "KIN">>,
      <<"KIN", "_ga", "_na", "_i">>,
      <<"KIN", "_ga">>,
      <<"YO", "KIN">>,
      <<"w">>,
      <<"a">> }

RECURSIVE Concat(_)
Concat(ps) == IF ps = <<>> THEN <<>> ELSE Head(ps) \o Concat(Tail(ps))

ReadingTexts ==
    UNION { { Concat(ps) : ps \in [1..n -> Pieces] } : n \in 1..MaxPieces }

\* the characters of the argument, each with its position
Positioned(text) == [k \in 1..Len(text) |-> [ch |-> text[k], pos |-> k]]

\* the characters a reading writes
ReadingChars(reading) == [k \in 1..Len(reading) |-> [ch |-> reading[k], pos |-> 0]]

Chars(t) == [k \in 1..Len(t) |-> t[k].ch]

\* text.replace(orig, reading), leftmost and non-overlapping, keeping for
\* each replacement the key and the positions of the characters it replaced
RECURSIVE ReplaceTracked(_, _, _)
ReplaceTracked(t, p, e) ==
    IF p > Len(t) THEN [text |-> <<>>, matches |-> <<>>]
    ELSE IF MatchAt(Chars(t), p, e.orig)
         THEN LET rest == ReplaceTracked(t, p + Len(e.orig), e)
              IN  [text    |-> ReadingChars(e.reading) \o rest.text,
                   matches |-> <<[key |-> e.orig,
                                  at  |-> [k \in 1..Len(e.orig) |->
                                              t[p + k - 1].pos]]>>
                               \o rest.matches]
         ELSE LET rest == ReplaceTracked(t, p + 1, e)
              IN  [text |-> <<t[p]>> \o rest.text, matches |-> rest.matches]

ReadingInit ==
    /\ arg \in ReadingTexts
    /\ ret = NotReturned
    /\ fpc = "called"
    /\ rtext = Positioned(arg)
    /\ rk = 1
    /\ matches = <<>>

\* lines 740-741: one iteration of the loop over the sorted items
ReadingPass ==
    /\ fpc = "called"
    /\ rk <= Len(SortedReadingDict)
    /\ LET r == ReplaceTracked(rtext, 1, SortedReadingDict[rk])
       IN  /\ rtext' = r.text
           /\ matches' = matches \o r.matches
    /\ rk' = rk + 1
    /\ UNCHANGED <<arg, ret, fpc>>
    /\ UNCHANGED nonReadingVars

\* line 742
ReadingReturn ==
    /\ fpc = "called"
    /\ rk > Len(SortedReadingDict)
    /\ ret' = Chars(rtext)
    /\ fpc' = "returned"
    /\ UNCHANGED <<arg, rtext, rk, matches>>
    /\ UNCHANGED nonReadingVars

ReadingNext ==
    \/ ReadingPass
    \/ ReadingReturn

InitReading == ReadingInit /\ EarlyIdle /\ NumberIdle /\ LastIdle

SpecReading == InitReading /\ [][ReadingNext]_vars

\* the pairs of keys of which the first is a substring of the second
IsSubstring(s, k) ==
    s # k /\ \E p \in 1..Len(k) : MatchAt(k, p, s)

NestedKeys ==
    { <<i, j>> \in (DOMAIN READING_DICT) \X (DOMAIN READING_DICT) :
        IsSubstring(READING_DICT[i].orig, READING_DICT[j].orig) }

\* the positions of the argument at which a key stands
OccurrencesOf(k) == { p \in 1..Len(arg) : MatchAt(arg, p, k) }

\* the replacement of exactly the occurrence of key k at position p
ReplacedWhole(k, p) ==
    \E m \in 1..Len(matches) :
        /\ matches[m].key = k
        /\ matches[m].at = [q \in 1..Len(k) |-> p + q - 1]

\* the occurrence of key k at position p lies inside an occurrence of a
\* longer key that contains k, and that occurrence was replaced
InsideReplaced(k, p) ==
    \E j \in DOMAIN READING_DICT :
        /\ IsSubstring(k, READING_DICT[j].orig)
        /\ \E q \in OccurrencesOf(READING_DICT[j].orig) :
              /\ q <= p
              /\ p + Len(k) <= q + Len(READING_DICT[j].orig)
              /\ ReplacedWhole(READING_DICT[j].orig, q)

\* C14 as stated: wherever a key stands in the text that contains another
\* key, the reading of the longer key (or of a still longer key around it)
\* is what replaces it.
C14_LongerKeyAlwaysWins ==
    fpc = "returned" =>
        \A pair \in NestedKeys :
            \A p \in OccurrencesOf(READING_DICT[pair[2]].orig) :
                \/ ReplacedWhole(READING_DICT[pair[2]].orig, p)
                \/ InsideReplaced(READING_DICT[pair[2]].orig, p)

\* part of the occurrence of key k at position p was replaced by a longer
\* key, a key of the same length, or another occurrence of k itself
TakenByEarlier(k, p) ==
    \E m \in 1..Len(matches) :
        /\ Len(matches[m].key) >= Len(k)
        /\ matches[m].at # [q \in 1..Len(k) |-> p + q - 1]
        /\ \E q \in 1..Len(matches[m].at) :
              matches[m].at[q] \in p..(p + Len(k) - 1)

\* C14 (amended): the keys are applied longest first, and wherever a key
\* stands in the text that contains another key, the longer key's reading
\* replaces it unless a key that is not shorter, or another occurrence of
\* the longer key itself, has replaced part of that occurrence; the result
\* is the text all passes leave.
C14_LongerKeyWins ==
    /\ \A m \in 1..(Len(matches) - 1) :
          Len(matches[m].key) >= Len(matches[m + 1].key)
    /\ fpc = "returned" =>
          /\ ret = apply_reading_dict(arg)
          /\ \A pair \in NestedKeys :
                \A p \in OccurrencesOf(READING_DICT[pair[2]].orig) :
                    \/ ReplacedWhole(READING_DICT[pair[2]].orig, p)
                    \/ TakenByEarlier(READING_DICT[pair[2]].orig, p)

\* a text with the key KIN _ga _na _i, which contains the key KIN _ga, and
\* with the key 1 0 0 0 MAN: each was replaced by its own reading
C14_Witness ==
    /\ fpc = "returned"
    /\ arg = <<"KIN", "_ga", "_na", "_i", "1", "0", "0", "0", "MAN">>
    /\ ReplacedWhole(<<"KIN", "_ga", "_na", "_i">>, 1)
    /\ ret = <<"_ka", "_ne", "_ga", "_na", "_i",
               "_i", "_xtu", "_se", "_n", "_ma", "_n">>

(***************************************************************************)
(* Number conversion: normalize_fullwidth_numbers, convert_large_numbers   *)
(*                                                                         *)
(* "F5" is the full-width digit five; MAN, OKU and CHO are the units.      *)
(***************************************************************************)
\* characters of a turn's text
MaxNumLen == 5

NumChars == {"0", "1", "3", "5", "F5", "MAN", "OKU", "CHO", "a"}

\* the texts of at most MaxNumLen characters; the longest ones end in a unit
\* or in a letter
NumTexts ==
    UNION { [1..n -> NumChars] : n \in 1..(MaxNumLen - 1) }
        \cup { t \o <<c>> : t \in [1..(MaxNumLen - 1) -> NumChars],
                            c \in {"MAN", "a"} }

\* str.translate: a full-width digit becomes the ASCII digit
normalize_fullwidth_numbers(text) ==
    [k \in 1..Len(text) |-> IF text[k] = "F5" THEN "5" ELSE text[k]]

\* \d of a str pattern: any Unicode decimal digit
IsReDigit(ch) == ch \in {"0", "1", "3", "5", "F5"}

IsUnit(ch) == ch \in {"MAN", "OKU", "CHO"}

\* lines 417-436: the readings of the thousands, hundreds, tens and ones;
\* dict.get(d, "") gives nothing for a character the table does not hold
digit_sen(d) ==
    CASE d = "1" -> <<"_se", "_n">>
      [] d = "3" -> <<"_sa", "_n", "_ze", "_n">>
      [] d = "5" -> <<"_go", "_se", "_n">>
      [] OTHER   -> <<>>

digit_hyaku(d) ==
    CASE d = "1" -> <<"_hi", "_xya", "_ku">>
      [] d = "3" -> <<"_sa", "_n", "_bi", "_xya", "_ku">>
      [] d = "5" -> <<"_go", "_hi", "_xya", "_ku">>
      [] OTHER   -> <<>>

digit_juu(d) ==
    CASE d = "1" -> <<"_ji", "_xyu", "_u">>
      [] d = "3" -> <<"_sa", "_n", "_ji", "_xyu", "_u">>
      [] d = "5" -> <<"_go", "_ji", "_xyu", "_u">>
      [] OTHER   -> <<>>

digit_ichi(d) ==
    CASE d = "1" -> <<"_i", "_chi">>
      [] d = "3" -> <<"_sa", "_n">>
      [] d = "5" -> <<"_go">>
      [] OTHER   -> <<>>

\* line 464
unit_reading(u) ==
    CASE u = "OKU" -> <<"_o", "_ku">>
      [] u = "MAN" -> <<"_ma", "_n">>
      [] u = "CHO" -> <<"_chi", "_xyo", "_u">>

\* str.lstrip("0")
RECURSIVE LStripZeros(_)
LStripZeros(num) ==
    IF num # <<>> /\ Head(num) = "0" THEN LStripZeros(Tail(num)) ELSE num

\* str.zfill(4)
RECURSIVE ZFill4(_)
ZFill4(num) == IF Len(num) >= 4 THEN num ELSE ZFill4(<<"0">> \o num)

\* (variant: the digits are not padded to four places)
number_to_reading_NoFill(num_str, unit) ==
    LET n == LStripZeros(num_str)
        f == n \o <<"0", "0", "0">>
        reading == digit_sen(f[1]) \o digit_hyaku(f[2]) \o digit_juu(f[3])
                   \o (IF f[4] # "0" THEN digit_ichi(f[4]) ELSE <<>>)
    IN  IF n = <<>> THEN <<>>
        ELSE IF reading # <<>> THEN reading \o unit ELSE <<>>

\* lines 438-456
number_to_reading(num_str, unit) ==
    LET n == LStripZeros(num_str)
        f == ZFill4(n)
        reading == digit_sen(f[1]) \o digit_hyaku(f[2]) \o digit_juu(f[3])
                   \o (IF f[4] # "0" THEN digit_ichi(f[4]) ELSE <<>>)
    IN  IF n = <<>> THEN <<>>
        ELSE IF reading # <<>> THEN reading \o unit ELSE <<>>

\* lines 460-466: the replacement of one match, or the match itself when
\* there is no reading
replace_unit(num, unit) ==
    LET reading == number_to_reading(num, unit_reading(unit))
    IN  IF reading # <<>> THEN reading ELSE num \o <<unit>>

\* the length of the match of (\d{1,4})(unit) that starts at p, 0 if none:
\* as many digits as there are up to the unit, four at most
MatchLenAt(text, p) ==
    IF \E n \in 1..4 :
          /\ p + n <= Len(text)
          /\ \A k \in 0..(n - 1) : IsReDigit(text[p + k])
          /\ IsUnit(text[p + n])
    THEN (CHOOSE n \in 1..4 :
             /\ p + n <= Len(text)
             /\ \A k \in 0..(n - 1) : IsReDigit(text[p + k])
             /\ IsUnit(text[p + n])) + 1
    ELSE 0

\* line 469: re.sub, leftmost matches that do not overlap
RECURSIVE SubFrom(_, _)
SubFrom(text, p) ==
    IF p > Len(text) THEN <<>>
    ELSE IF MatchLenAt(text, p) > 0
         THEN LET n == MatchLenAt(text, p) - 1
              IN  replace_unit(SubSeq(text, p, p + n - 1), text[p + n])
                  \o SubFrom(text, p + n + 1)
         ELSE <<text[p]>> \o SubFrom(text, p + 1)

convert_large_numbers(text) == SubFrom(text, 1)

NumberInit ==
    /\ arg \in NumTexts
    /\ ret = NotReturned
    /\ fpc = "called"
    /\ ntext = <<>>

\* line 644
NumberNormalize ==
    /\ fpc = "called"
    /\ ntext' = normalize_fullwidth_numbers(arg)
    /\ fpc' = "normalized"
    /\ UNCHANGED <<arg, ret>>
    /\ UNCHANGED nonNumberVars

\* line 646
NumberConvert ==
    /\ fpc = "normalized"
    /\ ret' = convert_large_numbers(ntext)
    /\ fpc' = "returned"
    /\ UNCHANGED <<arg, ntext>>
    /\ UNCHANGED nonNumberVars

NumberNext ==
    \/ NumberNormalize
    \/ NumberConvert

InitNumber == NumberInit /\ EarlyIdle /\ ReadingIdle /\ LastIdle

SpecNumber == InitNumber /\ [][NumberNext]_vars

\* the digits 0-9
IsDigit(ch) == ch \in {"0", "1", "3", "5"}

DigitValue(ch) ==
    CASE ch = "0" -> 0 [] ch = "1" -> 1 [] ch = "3" -> 3 [] ch = "5" -> 5

DigitOf(v) ==
    CASE v = 1 -> "1" [] v = 3 -> "3" [] v = 5 -> "5" [] OTHER -> "0"

\* the number a run of digits writes
RECURSIVE RunValue(_)
RunValue(num) ==
    IF num = <<>> THEN 0
    ELSE 10 * RunValue(SubSeq(num, 1, Len(num) - 1))
         + DigitValue(num[Len(num)])

\* the digits from position p on, up to the first character that is none
RECURSIVE RunAt(_, _)
RunAt(t, p) ==
    IF p <= Len(t) /\ IsDigit(t[p]) THEN <<t[p]>> \o RunAt(t, p + 1)
    ELSE <<>>

\* a run of digits begins at p
RunStartsAt(t, p) == IsDigit(t[p]) /\ (p = 1 \/ ~IsDigit(t[p - 1]))

\* the run that begins at p is directly followed by a unit
RunBeforeUnit(t, p) ==
    /\ RunStartsAt(t, p)
    /\ p + Len(RunAt(t, p)) <= Len(t)
    /\ IsUnit(t[p + Len(RunAt(t, p))])

\* the reading of v (1..9999), place by place
PositionalReading(v) ==
    digit_sen(DigitOf(v \div 1000))
    \o digit_hyaku(DigitOf((v \div 100) % 10))
    \o digit_juu(DigitOf((v \div 10) % 10))
    \o digit_ichi(DigitOf(v % 10))

\* the text with every run before a unit read out
RECURSIVE ReadOutFrom(_, _)
ReadOutFrom(t, p) ==
    IF p > Len(t) THEN <<>>
    ELSE IF RunBeforeUnit(t, p)
         THEN PositionalReading(RunValue(RunAt(t, p)))
              \o unit_reading(t[p + Len(RunAt(t, p))])
              \o ReadOutFrom(t, p + Len(RunAt(t, p)) + 1)
         ELSE <<t[p]>> \o ReadOutFrom(t, p + 1)

\* every run of digits before a unit has 1 to 4 digits and is not zero
RunsCovered(t) ==
    \A p \in 1..Len(t) :
        RunBeforeUnit(t, p) =>
            Len(RunAt(t, p)) <= 4 /\ RunValue(RunAt(t, p)) > 0

\* C15: in the text convert_large_numbers is handed, every non-zero run of 1
\* to 4 digits directly followed by MAN, OKU or CHO is replaced by its
\* positional reading and the unit's reading ("5000 MAN" by go-sen-man,
\* "3 OKU" by san-oku); a text without a digit directly before a unit is
\* returned as it is (a bare "10" stays "10").
C15_RunsReadOut ==
    fpc = "returned" =>
        /\ RunsCovered(ntext) => ret = ReadOutFrom(ntext, 1)
        /\ (\A p \in 1..(Len(ntext) - 1) :
               ~(IsDigit(ntext[p]) /\ IsUnit(ntext[p + 1]))) => ret = ntext
        /\ ntext = <<"5", "0", "0", "0", "MAN">>
               => ret = <<"_go", "_se", "_n", "_ma", "_n">>
        /\ ntext = <<"3", "OKU">> => ret = <<"_sa", "_n", "_o", "_ku">>
        /\ ntext = <<"1", "0">> => ret = <<"1", "0">>

\* a text with a full-width digit: "5 F5 0 MAN a" was normalized and its
\* run of three digits read out
C15_Witness ==
    /\ fpc = "returned"
    /\ arg = <<"5", "F5", "0", "MAN", "a">>
    /\ ntext = <<"5", "5", "0", "MAN", "a">>
    /\ ret = <<"_go", "_hi", "_xya", "_ku", "_go", "_ji", "_xyu", "_u",
               "_ma", "_n", "a">>

(***************************************************************************)
(* Subtitle stack grouping: create_video_with_stacked_subtitles,           *)
(* 4_video_edit.py lines 1354-1398.  A turn of the timeline is known here  *)
(* by its index, its role and the height of its rendered bitmap (the       *)
(* bitmap grows with every line of text, create_text_image line 494).      *)
(***************************************************************************)
MaxSubs == 5

\* config.py
DEFAULT_VIDEO_HEIGHT == 720
MAX_VISIBLE_SUBTITLES == 4
SUBTITLE_STACK_MARGIN == 18
SUBTITLE_TOP_MARGIN == 144

\* line 1384
max_group_height == DEFAULT_VIDEO_HEIGHT - SUBTITLE_TOP_MARGIN - 30

\* heights of rendered bitmaps: one line (five of them with their margins
\* stay under the budget), a tall one (60 + 18 + 468 is the budget) and one
\* of many lines, taller than the budget
Heights == {60, 468, 600}

SpecialRoles == {"narrator", "title_card"}

\* what a turn can be: a special turn, or a stacked one of any height
SubKinds ==
    [role : SpecialRoles, height : {100}] \cup [role : {"icchi"}, height : Heights]

\* the timelines of at most max turns: the turn at position k carries
\* index k - 1
Timelines(max) ==
    UNION { { [k \in 1..n |-> [index |-> k - 1, role |-> f[k].role,
                               height |-> f[k].height]] :
              f \in [1..n -> SubKinds] } : n \in 0..max }

IsSpecial(sub) == sub.role \in SpecialRoles

IsStacked(sub) == ~IsSpecial(sub)

\* line 1392
added_height(g, sub) ==
    sub.height + (IF g # <<>> THEN SUBTITLE_STACK_MARGIN ELSE 0)

Breaks_EvenWhenEmpty(g, total, sub) ==
    total + added_height(g, sub) > max_group_height

\* line 1393: the next turn does not fit under the ones of the group
Breaks(g, total, sub) ==
    total + added_height(g, sub) > max_group_height /\ g # <<>>

InnerRuns_ShortCap ==
    gi <= Len(stack_subtitles) /\ Len(group) < MAX_VISIBLE_SUBTITLES - 1

\* line 1390: the condition of the inner loop
InnerRuns ==
    gi <= Len(stack_subtitles) /\ Len(group) < MAX_VISIBLE_SUBTITLES

GroupInit ==
    /\ subtitles_data \in Timelines(MaxSubs)
    /\ stack_subtitles = <<>>
    /\ special_subtitles = <<>>
    /\ gi = 0
    /\ group = <<>>
    /\ total_height = 0
    /\ subtitle_groups = <<>>
    /\ gpc = "start"

\* lines 1354-1386: the turns are split by role, i = 0
GroupSplit ==
    /\ gpc = "start"
    /\ special_subtitles' = SelectSeq(subtitles_data, IsSpecial)
    /\ stack_subtitles' = SelectSeq(subtitles_data, IsStacked)
    /\ subtitle_groups' = <<>>
    /\ gi' = 1
    /\ gpc' = "outer"
    /\ UNCHANGED <<subtitles_data, group, total_height>>
    /\ UNCHANGED nonGroupVars

\* lines 1387-1389: the outer loop goes on with an empty group
GroupOpen ==
    /\ gpc = "outer"
    /\ gi <= Len(stack_subtitles)
    /\ group' = <<>>
    /\ total_height' = 0
    /\ gpc' = "inner"
    /\ UNCHANGED <<subtitles_data, stack_subtitles, special_subtitles, gi,
                   subtitle_groups>>
    /\ UNCHANGED nonGroupVars

\* lines 1390-1397: one turn is appended to the group
GroupAppend ==
    /\ gpc = "inner"
    /\ InnerRuns
    /\ ~Breaks(group, total_height, stack_subtitles[gi])
    /\ group' = Append(group, stack_subtitles[gi])
    /\ total_height' = total_height + added_height(group, stack_subtitles[gi])
    /\ gi' = gi + 1
    /\ UNCHANGED <<subtitles_data, stack_subtitles, special_subtitles,
                   subtitle_groups, gpc>>
    /\ UNCHANGED nonGroupVars

\* lines 1390, 1393-1394, 1398: the inner loop ends (its condition fails or
\* it breaks) and a group that is not empty is kept
GroupClose ==
    /\ gpc = "inner"
    /\ \/ ~InnerRuns
       \/ InnerRuns /\ Breaks(group, total_height, stack_subtitles[gi])
    /\ subtitle_groups' =
           IF group # <<>> THEN Append(subtitle_groups, group)
           ELSE subtitle_groups
    /\ gpc' = "outer"
    /\ UNCHANGED <<subtitles_data, stack_subtitles, special_subtitles, gi,
                   group, total_height>>
    /\ UNCHANGED nonGroupVars

\* line 1387: the outer loop ends
GroupDone ==
    /\ gpc = "outer"
    /\ gi > Len(stack_subtitles)
    /\ gpc' = "done"
    /\ UNCHANGED <<subtitles_data, stack_subtitles, special_subtitles, gi,
                   group, total_height, subtitle_groups>>
    /\ UNCHANGED nonGroupVars

GroupNext ==
    \/ GroupSplit
    \/ GroupOpen
    \/ GroupAppend
    \/ GroupClose
    \/ GroupDone

InitGroup == GroupInit /\ EarlyIdle /\ TextIdle /\ UploadIdle /\ FinalIdle

SpecGroup == InitGroup /\ [][GroupNext]_vars

\* the loops are straight-line code: a step that can be taken is taken
SpecGroupFair == SpecGroup /\ WF_vars(GroupNext)

RECURSIVE SumHeights(_)
SumHeights(g) ==
    IF g = <<>> THEN 0 ELSE g[1].height + SumHeights(Tail(g))

\* what a group takes on the canvas: its bitmaps and the margins between them
GroupHeight(g) ==
    SumHeights(g) + (IF Len(g) > 1 THEN (Len(g) - 1) * SUBTITLE_STACK_MARGIN ELSE 0)

\* C16: no group's cumulative height, counting the margin between its items,
\* exceeds the canvas budget, whatever the heights of the bitmaps.
C16_GroupsFitCanvas ==
    \A k \in 1..Len(subtitle_groups) :
        GroupHeight(subtitle_groups[k]) <= max_group_height

RECURSIVE Flatten(_)
Flatten(gs) == IF gs = <<>> THEN <<>> ELSE gs[1] \o Flatten(Tail(gs))

\* the groups that hold the turn of index x
GroupsHolding(x) ==
    { k \in 1..Len(subtitle_groups) :
        \E j \in 1..Len(subtitle_groups[k]) : subtitle_groups[k][j].index = x }

\* the turns of a group follow one another in the stacked turns
Consecutive(g) ==
    \E first \in 1..Len(stack_subtitles) :
        /\ first + Len(g) - 1 <= Len(stack_subtitles)
        /\ \A j \in 1..Len(g) : g[j] = stack_subtitles[first + j - 1]

Partitioned ==
    /\ \A k \in 1..Len(subtitles_data) :
           Cardinality(GroupsHolding(subtitles_data[k].index)) =
               IF subtitles_data[k].role \in {"narrator", "title_card"}
               THEN 0 ELSE 1
    /\ \A k \in 1..Len(subtitle_groups) :
           subtitle_groups[k] # <<>> /\ Consecutive(subtitle_groups[k])
    /\ Flatten(subtitle_groups) =
           SelectSeq(subtitles_data, LAMBDA sub : sub.role \notin {"narrator", "title_card"})

\* C17: the grouping loop terminates for every input, and when it has, every
\* turn that is neither narrator nor title card is in exactly one group, each
\* group holds consecutive turns, and the groups in order give the original
\* order of the turns.
C17_TerminatesAndPartitions ==
    /\ <>(gpc = "done")
    /\ [](gpc = "done" => Partitioned)

\* five turns, one of them special, one taller than the budget, were grouped
\* into three groups
C17_Witness ==
    /\ gpc = "done"
    /\ Len(subtitles_data) = 5
    /\ special_subtitles # <<>>
    /\ \E k \in 1..Len(stack_subtitles) :
           stack_subtitles[k].height > max_group_height
    /\ Len(subtitle_groups) = 3

(***************************************************************************)
(* Total duration of the video: create_video_with_stacked_subtitles,       *)
(* 4_video_edit.py lines 1449-1454, over the entries main() loads from     *)
(* subtitles.json (lines 1705-1709).  Times in milliseconds.               *)
(***************************************************************************)
\* line 1454: 5.0 seconds
DEFAULT_TOTAL_DURATION == 5000

\* the key of line 1451
EndOf(sub) == sub.start_time + sub.duration

assembler_total_duration_StartOnly(subs) ==
    IF subs # <<>>
    THEN LET last_sub == CHOOSE k \in 1..Len(subs) :
                             \A j \in 1..Len(subs) :
                                 subs[j].start_time <= subs[k].start_time
         IN  subs[last_sub].start_time
    ELSE DEFAULT_TOTAL_DURATION

\* lines 1450-1454
assembler_total_duration(subs) ==
    IF subs # <<>>
    THEN LET last_sub == CHOOSE k \in 1..Len(subs) :
                             \A j \in 1..Len(subs) : EndOf(subs[j]) <= EndOf(subs[k])
         IN  subs[last_sub].start_time + subs[last_sub].duration
    ELSE DEFAULT_TOTAL_DURATION

\* C18 as stated: for every subtitles file the voice generator writes, the
\* total duration the assembler computes from its entries equals the
\* total_duration recorded in the file.
C18_TotalsAgree ==
    Written =>
        assembler_total_duration(outSubtitles.subtitles) =
            outSubtitles.total_duration

\* C18 as amended: the two agree for every written file that has at least
\* one entry; for a file without entries the assembler takes 5 seconds while
\* the file records 0.
C18_TotalsAgreeWhenNotEmpty ==
    Written =>
        IF outSubtitles.subtitles # <<>>
        THEN assembler_total_duration(outSubtitles.subtitles) =
                 outSubtitles.total_duration
        ELSE /\ assembler_total_duration(outSubtitles.subtitles) =
                    DEFAULT_TOTAL_DURATION
             /\ outSubtitles.total_duration = 0

\* a written timeline of a title card and two audio entries, one of them
\* measured from a file an earlier run left
C18_Witness ==
    /\ Written
    /\ Len(outSubtitles.subtitles) >= 3
    /\ reachedExisting # {}
    /\ \E k \in 1..Len(outSubtitles.subtitles) :
           outSubtitles.subtitles[k].role = "title_card"
    /\ assembler_total_duration(outSubtitles.subtitles) > DEFAULT_TOTAL_DURATION

(***************************************************************************)
(* Chunked upload: YouTubeUploadClient.upload_video,                       *)
(* Skills/google/youtube_upload.py lines 175-194.  request.next_chunk()    *)
(* either raises, or returns no response yet (the server has part of the   *)
(* file), or returns the response.                                         *)
(***************************************************************************)
\* the server acknowledges a file as incomplete only so many times
MaxIncomplete == 3

\* line 178
max_retries == 3

Fatal_OneLate(count) == count > max_retries + 1

\* line 189
Fatal(count) == count > max_retries

\* lines 176-178
UploadInit ==
    /\ response = NoResponse
    /\ retry_count = 0
    /\ upc = "loop"
    /\ uprogress = 0
    /\ uerror = "none"
    /\ chunkLog = <<>>

\* lines 180-182: next_chunk returns the response; the loop ends and
\* line 194 reads its id
UploadResponse ==
    /\ upc = "loop"
    /\ response = NoResponse
    /\ response' = [kind |-> "video", id |-> "id"]
    /\ chunkLog' = Append(chunkLog, "response")
    /\ upc' = "done"
    /\ UNCHANGED <<retry_count, uprogress, uerror>>
    /\ UNCHANGED nonUploadVars

\* lines 180-186: next_chunk returns a status and no response
UploadIncomplete ==
    /\ upc = "loop"
    /\ response = NoResponse
    /\ uprogress < MaxIncomplete
    /\ uprogress' = uprogress + 1
    /\ chunkLog' = Append(chunkLog, "incomplete")
    /\ UNCHANGED <<response, retry_count, upc, uerror>>
    /\ UNCHANGED nonUploadVars

\* lines 187-192: next_chunk raises and the loop sleeps and tries again
UploadRetry ==
    /\ upc = "loop"
    /\ response = NoResponse
    /\ ~Fatal(retry_count + 1)
    /\ retry_count' = retry_count + 1
    /\ chunkLog' = Append(chunkLog, "raised")
    /\ UNCHANGED <<response, upc, uprogress, uerror>>
    /\ UNCHANGED nonUploadVars

\* lines 187-190: next_chunk raises once more than max_retries allows
UploadFatal ==
    /\ upc = "loop"
    /\ response = NoResponse
    /\ Fatal(retry_count + 1)
    /\ retry_count' = retry_count + 1
    /\ chunkLog' = Append(chunkLog, "raised")
    /\ uerror' = "RuntimeError"
    /\ upc' = "raised"
    /\ UNCHANGED <<response, uprogress>>
    /\ UNCHANGED nonUploadVars

UploadNext ==
    \/ UploadResponse
    \/ UploadIncomplete
    \/ UploadRetry
    \/ UploadFatal

InitUpload == UploadInit /\ EarlyIdle /\ TextIdle /\ GroupIdle /\ FinalIdle

SpecUpload == InitUpload /\ [][UploadNext]_vars

\* the loop is straight-line code and next_chunk comes back
SpecUploadFair == SpecUpload /\ WF_vars(UploadNext)

\* the calls of next_chunk that raised
Raised == { k \in 1..Len(chunkLog) : chunkLog[k] = "raised" }

\* the retries proper: the calls that come right after a call that raised
RetriedCalls == { k \in 2..Len(chunkLog) : chunkLog[k - 1] = "raised" }

HOUR == 60 * 60
DAY == 24 * HOUR

\* line 34: JST = timezone(timedelta(hours=9))
JST == 9 * HOUR

\* timedelta(minutes=15), lines 235 and 248
PUBLISH_MARGIN == 15 * 60

\* the hours of config.YOUTUBE_PUBLISH_HOURS_JST as the docstring gives them
\* (lines 215-217) and main.py offers them (line 132)
YOUTUBE_PUBLISH_HOURS_JST == {6, 18}

Instant(dt) == dt.wall - dt.offset

\* dt.astimezone(tz): the same instant read on the clock of tz
astimezone(dt, tz) == [wall |-> dt.wall - dt.offset + tz, offset |-> tz]

\* dt.replace(hour=h, minute=0, second=0, microsecond=0)
AtHour(dt, h) == [wall |-> (dt.wall \div DAY) * DAY + h * HOUR, offset |-> dt.offset]

\* dt + timedelta(seconds=n)
Plus(dt, n) == [wall |-> dt.wall + n, offset |-> dt.offset]

\* aware datetimes compare by instant
Later(a, b) == Instant(a) > Instant(b)

RECURSIVE sorted(_)
sorted(S) ==
    IF S = {} THEN <<>>
    ELSE LET least == CHOOSE x \in S : \A y \in S : x <= y
         IN  <<least>> \o sorted(S \ {least})

Far_Inclusive(candidate, now_jst) ==
    ~Later(Plus(now_jst, PUBLISH_MARGIN), candidate)

\* line 235
Far(candidate, now_jst) == Later(candidate, Plus(now_jst, PUBLISH_MARGIN))

\* lines 231-240: the first hour whose slot of today is far enough, else
\* hours[0]
RECURSIVE FirstFarHour(_, _, _)
FirstFarHour(rest, now_jst, default) ==
    IF rest = <<>> THEN default
    ELSE IF Far(AtHour(now_jst, Head(rest)), now_jst) THEN Head(rest)
    ELSE FirstFarHour(Tail(rest), now_jst, default)

\* hour_jst is {} for None and {h} for the hour h; now_jst is datetime.now(JST)
get_next_publish_time(now_jst, hour_jst) ==
    LET hours == sorted(YOUTUBE_PUBLISH_HOURS_JST)
        hour == IF hour_jst = {} THEN FirstFarHour(hours, now_jst, hours[1])
                ELSE CHOOSE h \in hour_jst : TRUE
        today == AtHour(now_jst, hour)
        publish_jst == IF ~Later(today, Plus(now_jst, PUBLISH_MARGIN))
                       THEN Plus(today, DAY) ELSE today
    IN  astimezone(publish_jst, 0)

\* the current times: every second of day 1 on the JST clock
Nows == { [wall |-> DAY + sec, offset |-> JST] : sec \in 0..(DAY - 1) }

PublishInit ==
    /\ arg \in [now : Nows, hour_jst : {{}, {6}, {18}}]
    /\ ret = NotReturned
    /\ fpc = "called"

PublishCall ==
    /\ fpc = "called"
    /\ ret' = get_next_publish_time(arg.now, arg.hour_jst)
    /\ fpc' = "returned"
    /\ UNCHANGED arg
    /\ UNCHANGED nonCallVars

InitPublish == PublishInit /\ EarlyIdle /\ ReadingIdle /\ NumberIdle /\ LastIdle

SpecPublish == InitPublish /\ [][PublishCall]_vars

\* the instants of the publish hours on the days around instant t
SlotsAround(t) ==
    { d * DAY + h * HOUR - JST :
        d \in ((t \div DAY) - 1)..((t \div DAY) + 2), h \in YOUTUBE_PUBLISH_HOURS_JST }

\* the instant falls on a publish hour of the JST clock, minute and second 0
OnPublishHour(t) ==
    \E h \in YOUTUBE_PUBLISH_HOURS_JST : (t + JST) % DAY = h * HOUR

MaxRows == 2

Columns == 1..10

\* youtube_url_column, views_column, likes_column, comments_column (lines
\* 236-239) are 0-based; the columns of the model are 1-based
UrlColumn == 5 + 1
StatsColumns == {6 + 1, 7 + 1, 8 + 1}

\* line 131: the header row
HeaderRow == [c \in Columns |-> "x"]

\* a row as record_video appends it (lines 202-221) and as the backfill or a
\* person may have changed it since
DataRows ==
    { [c \in Columns |->
          IF c = UrlColumn THEN f
          ELSE IF c \in StatsColumns THEN g
          ELSE IF c = 10 THEN j
          ELSE "x"] :
        f \in {"", "watch", "watch_noid", "channel", "short", "drive"},
        g \in {"", "old"}, j \in {"", "drive"} }
    \cup { [c \in Columns |-> ""] }

Sheets(max) ==
    UNION { { <<HeaderRow>> \o rows : rows \in [1..n -> DataRows] } : n \in 0..max }

\* the cells of a row up to its last cell that is not empty
RECURSIVE TrimRow(_, _)
TrimRow(row, n) ==
    IF n = 0 THEN <<>>
    ELSE IF row[n] = "" THEN TrimRow(row, n - 1)
    ELSE [c \in 1..n |-> row[c]]

\* SheetsClient.get_values (sheets_client.py 95-117): the rows up to the
\* last one that is not empty, each without its trailing empty cells
RECURSIVE get_values(_, _)
get_values(sh, n) ==
    IF n = 0 THEN <<>>
    ELSE IF TrimRow(sh[n], 10) = <<>> THEN get_values(sh, n - 1)
    ELSE [r \in 1..n |-> TrimRow(sh[r], 10)]

\* "youtube.com" in url
HasYoutubeCom(url) == url \in {"watch", "watch_noid", "channel"}

\* lines 284-288: the id taken out of the URL ("None": none found)
VideoIdOf(url) ==
    IF url \in {"watch", "watch_noid"}
    THEN (IF url = "watch" THEN "ID" ELSE "")
    ELSE IF url = "short" THEN "ID"
    ELSE "None"

\* lines 274-291: the row is passed over
Skipped(row) ==
    IF Len(row) <= UrlColumn - 1 THEN TRUE
    ELSE IF row[UrlColumn] = "" \/ ~HasYoutubeCom(row[UrlColumn]) THEN TRUE
    ELSE VideoIdOf(row[UrlColumn]) \in {"None", ""}

RowNumber_FromOne(k) == k

\* line 273: enumerate(values[1:], start=2)
RowNumber(k) == k + 1

\* lines 302-319: the three updates of a row
UpdatesOf(row_idx) ==
    << [row |-> row_idx, col |-> 6 + 1, value |-> "new"],
       [row |-> row_idx, col |-> 7 + 1, value |-> "new"],
       [row |-> row_idx, col |-> 8 + 1, value |-> "new"] >>

\* SheetsClient.batch_update (sheets_client.py 155-182): every update writes
\* its one cell
RECURSIVE batch_update(_, _)
batch_update(sh, ups) ==
    IF ups = <<>> THEN sh
    ELSE LET u == Head(ups)
         IN  batch_update(
                 IF u.row \in 1..Len(sh)
                 THEN [sh EXCEPT ![u.row] = [@ EXCEPT ![u.col] = u.value]]
                 ELSE sh \o [k \in 1..(u.row - Len(sh)) |->
                               [c \in Columns |->
                                  IF k = u.row - Len(sh) /\ c = u.col
                                  THEN u.value ELSE ""]],
                 Tail(ups))

TrackInit ==
    /\ sheet \in Sheets(MaxRows)
    /\ sheet0 = sheet
    /\ tvalues = <<>>
    /\ trow = 0
    /\ updates = <<>>
    /\ updated_count = 0
    /\ tpc = "start"

\* lines 253-255: no API key
TrackNoKey ==
    /\ tpc = "start"
    /\ tpc' = "done"
    /\ UNCHANGED <<sheet, sheet0, tvalues, trow, updates, updated_count>>
    /\ UNCHANGED nonTrackVars

\* lines 257-271: the rows are read
TrackRead ==
    /\ tpc = "start"
    /\ tvalues' = get_values(sheet, Len(sheet))
    /\ trow' = 1
    /\ tpc' = IF Len(tvalues') <= 1 THEN "done" ELSE "loop"
    /\ UNCHANGED <<sheet, sheet0, updates, updated_count>>
    /\ UNCHANGED nonTrackVars

\* lines 273-291: a row without a video id is passed over
TrackSkip ==
    /\ tpc = "loop"
    /\ trow <= Len(tvalues) - 1
    /\ Skipped(tvalues[trow + 1])
    /\ trow' = trow + 1
    /\ UNCHANGED <<sheet, sheet0, tvalues, updates, updated_count, tpc>>
    /\ UNCHANGED nonTrackVars

\* lines 293-323: the statistics of the row's video are fetched
TrackFetch ==
    /\ tpc = "loop"
    /\ trow <= Len(tvalues) - 1
    /\ ~Skipped(tvalues[trow + 1])
    /\ updates' = updates \o UpdatesOf(RowNumber(trow))
    /\ updated_count' = updated_count + 1
    /\ trow' = trow + 1
    /\ UNCHANGED <<sheet, sheet0, tvalues, tpc>>
    /\ UNCHANGED nonTrackVars

\* lines 295-296, 325-326: the video is unknown, or get_videos_by_ids raises
TrackFetchNothing ==
    /\ tpc = "loop"
    /\ trow <= Len(tvalues) - 1
    /\ ~Skipped(tvalues[trow + 1])
    /\ trow' = trow + 1
    /\ UNCHANGED <<sheet, sheet0, tvalues, updates, updated_count, tpc>>
    /\ UNCHANGED nonTrackVars

\* lines 328-333: the updates are written in one batch
TrackFlush ==
    /\ tpc = "loop"
    /\ trow > Len(tvalues) - 1
    /\ sheet' = IF updates # <<>> THEN batch_update(sheet, updates) ELSE sheet
    /\ tpc' = "done"
    /\ UNCHANGED <<sheet0, tvalues, trow, updates, updated_count>>
    /\ UNCHANGED nonTrackVars

\* line 330: batch_update raises and nothing is written
TrackFlushFails ==
    /\ tpc = "loop"
    /\ trow > Len(tvalues) - 1
    /\ updates # <<>>
    /\ tpc' = "raised"
    /\ UNCHANGED <<sheet, sheet0, tvalues, trow, updates, updated_count>>
    /\ UNCHANGED nonTrackVars

TrackNext ==
    \/ TrackNoKey
    \/ TrackRead
    \/ TrackSkip
    \/ TrackFetch
    \/ TrackFetchNothing
    \/ TrackFlush
    \/ TrackFlushFails

InitTrack == TrackInit /\ EarlyIdle /\ TextIdle /\ GroupIdle /\ UploadIdle /\ RaceIdle

SpecTrack == InitTrack /\ [][TrackNext]_vars

\* the row holds a YouTube URL, whatever its form
HoldsYouTubeUrl(row) ==
    row[UrlColumn] \in {"watch", "watch_noid", "channel", "short"}

\* C21: update_video_stats changes only cells of columns G, H and I of rows
\* that hold a YouTube URL; every other cell and every row without a YouTube
\* URL stay as they were, and no row is added or removed.
C21_OnlyStatsCellsChange ==
    /\ Len(sheet) = Len(sheet0)
    /\ \A r \in 1..Len(sheet0) : \A c \in Columns :
           sheet[r][c] # sheet0[r][c] =>
               /\ c \in {7, 8, 9}
               /\ r > 1
               /\ HoldsYouTubeUrl(sheet0[r])

\* a sheet of a row without a URL and a row with one (its counts stale):
\* the second row got its three counts, the first stayed as it was
C21_Witness ==
    /\ tpc = "done"
    /\ Len(sheet0) = 3
    /\ sheet0[2][6] = "" /\ sheet0[2][10] = "drive"
    /\ sheet0[3][6] = "watch" /\ sheet0[3][7] = "old"
    /\ sheet[2] = sheet0[2]
    /\ \A c \in {7, 8, 9} : sheet[3][c] = "new"

(***************************************************************************)
(* Theme suggestion: ThemeSuggester.suggest_themes, theme_suggester.py     *)
(* lines 157-217 and 307-372.  A theme is its characters; a row of the     *)
(* tracking sheet is known by its theme and by whether its date is inside  *)
(* the 30 days before now.                                                 *)
(***************************************************************************)
\* candidates the LLM returns and rows of the sheet
MaxCands == 3
MaxPast == 2

\* themes: "abcdef"; "abcdxy", which shares 3 of 5 bigrams with it;
\* "abcxy", which shares 2 of 4; one of a single character; an unrelated one
ThemePool ==
    { <<"a", "b", "c", "d", "e", "f">>,
      <<"a", "b", "c", "d", "x", "y">>,
      <<"a", "b", "c", "x", "y">>,
      <<"a">>,
      <<"p", "q", "r">> }

PastPool == { <<"a", "b", "c", "d", "e", "f">>, <<"p", "q", "r">> }

SuggestArgs(cands, past) ==
    UNION { UNION { [candidates : [1..n -> ThemePool],
                     rows : [1..m -> [recent : BOOLEAN, theme : PastPool]],
                     fetch_ok : BOOLEAN,
                     count : {1, 2}] : n \in 0..cands } : m \in 0..past }

\* line 213
Bigrams(theme) == { <<theme[i], theme[i + 1]>> : i \in 1..(Len(theme) - 1) }

Min(a, b) == IF a <= b THEN a ELSE b

is_similar_Above(theme1, theme2) ==
    IF Len(theme1) < 2 \/ Len(theme2) < 2 THEN FALSE
    ELSE LET set1 == Bigrams(theme1)
             set2 == Bigrams(theme2)
         IN  10 * Cardinality(set1 \cap set2)
                 > 6 * Min(Cardinality(set1), Cardinality(set2))

\* lines 199-217, threshold 0.6: overlap >= 6/10
is_similar(theme1, theme2) ==
    IF Len(theme1) < 2 \/ Len(theme2) < 2 THEN FALSE
    ELSE LET set1 == Bigrams(theme1)
             set2 == Bigrams(theme2)
         IN  10 * Cardinality(set1 \cap set2)
                 >= 6 * Min(Cardinality(set1), Cardinality(set2))

\* lines 157-197: the themes of the rows dated inside the window; an error
\* while reading gives no themes
get_past_themes(rows, fetch_ok) ==
    IF ~fetch_ok THEN <<>>
    ELSE LET Recent(row) == row.recent
             kept == SelectSeq(rows, Recent)
         IN  [k \in 1..Len(kept) |-> kept[k].theme]

Take(seq, n) == SubSeq(seq, 1, Min(n, Len(seq)))

\* lines 343-372, themes being what generate_themes_with_llm returned
suggest_themes(themes, rows, fetch_ok, count) ==
    LET past_themes == get_past_themes(rows, fetch_ok)
        Fresh(theme) ==
            ~\E k \in 1..Len(past_themes) : is_similar(theme, past_themes[k])
        filtered == SelectSeq(themes, Fresh)
    IN  IF past_themes # <<>> /\ filtered # <<>>
        THEN Take(filtered, count)
        ELSE Take(themes, count)

SuggestInit ==
    /\ arg \in SuggestArgs(MaxCands, MaxPast)
    /\ ret = NotReturned
    /\ fpc = "called"

SuggestCall ==
    /\ fpc = "called"
    /\ ret' = suggest_themes(arg.candidates, arg.rows, arg.fetch_ok, arg.count)
    /\ fpc' = "returned"
    /\ UNCHANGED arg
    /\ UNCHANGED nonCallVars

InitSuggest == SuggestInit /\ EarlyIdle /\ ReadingIdle /\ NumberIdle /\ LastIdle

SpecSuggest == InitSuggest /\ [][SuggestCall]_vars

\* the themes recorded in the sheet within the last 30 days
RecordedRecently(rows) == { rows[k].theme : k \in { j \in 1..Len(rows) : rows[j].recent } }

\* bigram overlap of at least 0.6
NearDuplicate(a, b) ==
    /\ Len(a) >= 2 /\ Len(b) >= 2
    /\ LET shared   == Cardinality(Bigrams(a) \cap Bigrams(b))
           smallest == Min(Cardinality(Bigrams(a)), Cardinality(Bigrams(b)))
       IN  shared * 10 >= smallest * 6

DuplicateOfRecent(theme, rows) ==
    \E p \in RecordedRecently(rows) : NearDuplicate(theme, p)

MaxRaceTurns == 2

Runs == {1, 2}

Sites == {"image", "voice", "cache"}

RaceTurns == 1..MaxRaceTurns

At(t, phase) == [turn |-> t, phase |-> phase]

\* the other run is between its check and its write of turn t
OtherBusy(r, t) ==
    \E o \in Runs \ {r} : rpc[o].turn = t /\ rpc[o].phase \in {"invoke", "write"}

SeesFile_Locked(r, t) == t \in rfiles \/ OtherBusy(r, t)

\* output_path.exists() (2_image_gen.py 157), voice_path.exists()
\* (3_voice_gen.py 627), ImageCache.get (image_cache.py 122): what the run
\* sees is what is in the directory at that moment
SeesFile(r, t) == t \in rfiles

\* the turn after t, or the end of the run
AfterTurn(t) == IF t < MaxRaceTurns THEN At(t + 1, "check") ELSE At(t, "done")

RaceInit ==
    /\ rsite \in Sites
    /\ rfiles \in SUBSET RaceTurns
    /\ rpc = [r \in Runs |-> At(1, "check")]
    /\ rinvoked = [r \in Runs |-> {}]
    /\ rwrote = [r \in Runs |-> {}]

\* the file is there: the turn is skipped (or served from the cache)
RaceSkip(r) ==
    /\ rpc[r].phase = "check"
    /\ SeesFile(r, rpc[r].turn)
    /\ rpc' = [rpc EXCEPT ![r] = AfterTurn(rpc[r].turn)]
    /\ UNCHANGED <<rsite, rfiles, rinvoked, rwrote>>
    /\ UNCHANGED nonRaceVars

\* the file is not there: the run goes on to the backend
RacePass(r) ==
    /\ rpc[r].phase = "check"
    /\ ~SeesFile(r, rpc[r].turn)
    /\ rpc' = [rpc EXCEPT ![r] = At(rpc[r].turn, "invoke")]
    /\ UNCHANGED <<rsite, rfiles, rinvoked, rwrote>>
    /\ UNCHANGED nonRaceVars

\* the backend is invoked and answers
RaceInvoke(r) ==
    /\ rpc[r].phase = "invoke"
    /\ rinvoked' = [rinvoked EXCEPT ![r] = @ \cup {rpc[r].turn}]
    /\ rpc' = [rpc EXCEPT ![r] = At(rpc[r].turn, "write")]
    /\ UNCHANGED <<rsite, rfiles, rwrote>>
    /\ UNCHANGED nonRaceVars

\* the backend is invoked and fails: nothing is written for the turn
RaceInvokeFails(r) ==
    /\ rpc[r].phase = "invoke"
    /\ rinvoked' = [rinvoked EXCEPT ![r] = @ \cup {rpc[r].turn}]
    /\ rpc' = [rpc EXCEPT ![r] = AfterTurn(rpc[r].turn)]
    /\ UNCHANGED <<rsite, rfiles, rwrote>>
    /\ UNCHANGED nonRaceVars

\* the file is written, over whatever is there
RaceWrite(r) ==
    /\ rpc[r].phase = "write"
    /\ rfiles' = rfiles \cup {rpc[r].turn}
    /\ rwrote' = [rwrote EXCEPT ![r] = @ \cup {rpc[r].turn}]
    /\ rpc' = [rpc EXCEPT ![r] = AfterTurn(rpc[r].turn)]
    /\ UNCHANGED <<rsite, rinvoked>>
    /\ UNCHANGED nonRaceVars

RaceNext ==
    \E r \in Runs :
        \/ RaceSkip(r)
        \/ RacePass(r)
        \/ RaceInvoke(r)
        \/ RaceInvokeFails(r)
        \/ RaceWrite(r)

InitRace == RaceInit /\ EarlyIdle /\ TextIdle /\ GroupIdle /\ UploadIdle /\ TrackIdle

SpecRace == InitRace /\ [][RaceNext]_vars

\* run r is at its check of turn t and takes it in this step
TakesCheck(r, t) ==
    /\ rpc[r] = [turn |-> t, phase |-> "check"]
    /\ rpc'[r] # rpc[r]

\* C23: two concurrent runs on one output directory are not safe.  Nothing
\* is held between the check and the write: a run whose check finds no file
\* goes on to the backend also while the other run is between its own check
\* and write of the same turn, and every run that passed the check invokes
\* the backend and, if the backend answers, writes the file.
C23_CheckThenWriteUnlocked ==
    /\ [][\A r \in Runs : \A t \in RaceTurns :
              (TakesCheck(r, t) /\ t \notin rfiles) =>
                  rpc'[r] = [turn |-> t, phase |-> "invoke"]]_vars
    /\ [](\A r \in Runs : rwrote[r] \subseteq rinvoked[r])
    /\ [](\A r \in Runs : \A t \in RaceTurns :
              (rpc[r].phase = "write" /\ rpc[r].turn = t) => t \in rinvoked[r])

\* both runs passed the check of turn 1, both invoked the backend for it and
\* both wrote its file
C23_Witness ==
    /\ 1 \in rinvoked[1] \cap rinvoked[2]
    /\ 1 \in rwrote[1] \cap rwrote[2]
    /\ rpc[1].phase = "done" /\ rpc[2].phase = "done"

(***************************************************************************)
(* The audio mix of create_video_with_stacked_subtitles                    *)
(* (4_video_edit.py 1651-1665).  A voice file is "missing", "ok" (it       *)
(* loads) or "broken" (it exists and AudioFileClip raises on it).  The     *)
(* path of the voice of index i is written i.                              *)
(***************************************************************************)
MaxClips == 2

ClipIndices == 0..2

FileStates == {"missing", "ok", "broken"}

\* the start_time of a timeline entry, in ms
StartTimes == {0, 1500}

MixArgs(max) ==
    UNION { [subs : [1..n -> [index : ClipIndices, start_time : StartTimes]],
             voice_map : SUBSET ClipIndices,
             files : [ClipIndices -> FileStates]] : n \in 0..max }

with_start_Zero(path, t) == [path |-> path, start |-> 0]

\* line 1660: the clip of the file, placed at t
with_start(path, t) == [path |-> path, start |-> t]

RECURSIVE audio_clips(_, _, _)
\* lines 1652-1663
audio_clips(subs, vmap, files) ==
    IF subs = <<>> THEN <<>>
    ELSE LET sub  == Head(subs)
             idx  == sub.index
             rest == audio_clips(Tail(subs), vmap, files)
         IN  IF idx \notin vmap THEN rest
             ELSE IF files[idx] = "missing" THEN rest
             ELSE IF files[idx] = "broken" THEN rest
             ELSE <<with_start(idx, sub.start_time)>> \o rest

MixInit ==
    /\ arg \in MixArgs(MaxClips)
    /\ ret = NotReturned
    /\ fpc = "called"

MixCall ==
    /\ fpc = "called"
    /\ ret' = audio_clips(arg.subs, arg.voice_map, arg.files)
    /\ fpc' = "returned"
    /\ UNCHANGED arg
    /\ UNCHANGED nonCallVars

InitMix == MixInit /\ EarlyIdle /\ ReadingIdle /\ NumberIdle /\ LastIdle

SpecMix == InitMix /\ [][MixCall]_vars

\* the positions of the timeline entries that are in the voice map and whose
\* file is in one of the given states
EntriesWith(states) ==
    { k \in 1..Len(arg.subs) :
          /\ arg.subs[k].index \in arg.voice_map
          /\ arg.files[arg.subs[k].index] \in states }

\* the mix holds one clip per position of E, in timeline order, each clip
\* being the entry's file starting at the entry's start_time
OneClipPer(E) ==
    /\ Len(ret) = Cardinality(E)
    /\ \A k \in E :
           LET j == Cardinality({ e \in E : e <= k })
           IN  /\ ret[j].path = arg.subs[k].index
               /\ ret[j].start = arg.subs[k].start_time

\* C24 as stated: the mix holds one clip per timeline entry whose index is in
\* the voice map and whose audio file exists, starting at the entry's
\* start_time; a missing file gives no clip.
C24_ClipPerExistingFile ==
    fpc = "returned" => OneClipPer(EntriesWith({"ok", "broken"}))

\* C24 as amended: one clip per timeline entry whose index is in the voice
\* map and whose audio file exists and loads; a file that is missing or does
\* not load gives no clip, and the mix is returned all the same.
C24_ClipPerLoadableFile ==
    fpc = "returned" => OneClipPer(EntriesWith({"ok"}))

\* a timeline with a clip placed after 0, an entry with a missing file and
\* an entry with a file that does not load
C24_Witness ==
    /\ fpc = "returned"
    /\ \E j \in 1..Len(ret) : ret[j].start > 0
    /\ EntriesWith({"missing"}) # {}
    /\ Len(ret) < Len(arg.subs)

(***************************************************************************)
(* The phase make_frame renders at time t (4_video_edit.py 1459-1486,      *)
(* 1515-1649).  Times are in seconds.  A timeline entry carries its role,  *)
(* start_time and duration; the entries follow each other as the voice     *)
(* generator lays them out.                                                *)
(***************************************************************************)
MaxPhaseSubs == 4

INTRO_DURATION == 25

\* the duration of every entry of the timelines below
PhaseEntryDuration == 10

PhaseRoles == {"narrator", "title_card", "icchi"}

PhaseTimelines(max) ==
    UNION { { [k \in 1..n |-> [role |-> f[k],
                               start_time |-> (k - 1) * PhaseEntryDuration,
                               duration |-> PhaseEntryDuration]] :
              f \in [1..n -> PhaseRoles] } : n \in 0..max }

\* the times frames are asked for: the entry boundaries and the middles
FrameTimes(max) == { 5 * i : i \in 0..(2 * max + 1) }

PhaseArgs(max) == [subs : PhaseTimelines(max), t : FrameTimes(max)]

\* the positions of the entries satisfying Test, in timeline order
PositionsOf(subs, Test(_)) == { k \in 1..Len(subs) : Test(subs[k]) }

Largest(S) == CHOOSE k \in S : \A j \in S : j <= k

Smallest(S) == CHOOSE k \in S : \A j \in S : k <= j

\* lines 1460-1464: the start of the first stacked turn
intro_end_time(subs) ==
    LET stacked == PositionsOf(subs, IsStacked)
    IN  IF stacked = {} THEN INTRO_DURATION
        ELSE subs[Smallest(stacked)].start_time

\* lines 1469-1474: the position of the last special entry when that entry
\* is a narrator, 0 for None
ending_narrator(subs) ==
    LET special == PositionsOf(subs, IsSpecial)
    IN  IF special = {} THEN 0
        ELSE IF subs[Largest(special)].role = "narrator" THEN Largest(special)
        ELSE 0

\* lines 1477-1484
mid_story_narrators(subs) ==
    { k \in PositionsOf(subs, IsSpecial) :
          /\ subs[k].role = "narrator"
          /\ subs[k].start_time >= intro_end_time(subs)
          /\ k # ending_narrator(subs) }

\* start <= t < start + duration
Active(sub, t) == sub.start_time <= t /\ t < sub.start_time + sub.duration

\* lines 1528-1597: the section make_frame returns from
make_frame(subs, t) ==
    LET ending == ending_narrator(subs)
    IN  IF ending # 0 /\ Active(subs[ending], t) THEN "ending"
        ELSE IF t < intro_end_time(subs) THEN "intro"
        ELSE IF \E k \in mid_story_narrators(subs) : Active(subs[k], t) THEN "mid"
        ELSE "main"

PhaseInit ==
    /\ arg \in PhaseArgs(MaxPhaseSubs)
    /\ ret = NotReturned
    /\ fpc = "called"

PhaseCall ==
    /\ fpc = "called"
    /\ ret' = [kind |-> make_frame(arg.subs, arg.t)]
    /\ fpc' = "returned"
    /\ UNCHANGED arg
    /\ UNCHANGED nonCallVars

InitPhase == PhaseInit /\ EarlyIdle /\ ReadingIdle /\ NumberIdle /\ LastIdle

SpecPhase == InitPhase /\ [][PhaseCall]_vars

\* the narrator entry at position k comes after every non-narrator turn and
\* no narrator follows it
TrailingNarrator(subs, k) ==
    /\ subs[k].role = "narrator"
    /\ \A j \in 1..Len(subs) : IsStacked(subs[j]) => j < k
    /\ \A j \in 1..Len(subs) : subs[j].role = "narrator" => j <= k

\* C25: make_frame renders exactly one of the four phases; the ending phase
\* only during the trailing narrator entry, which comes after every
\* non-narrator turn; the mid-story phase only during a narrator entry that
\* starts at or after the end of the intro and is not the ending narrator.
C25_PhaseOfFrame ==
    fpc = "returned" =>
        /\ ret.kind \in {"ending", "intro", "mid", "main"}
        /\ ret.kind = "ending" =>
               \E k \in 1..Len(arg.subs) :
                   TrailingNarrator(arg.subs, k) /\ Active(arg.subs[k], arg.t)
        /\ ret.kind = "mid" =>
               \E k \in 1..Len(arg.subs) :
                   /\ arg.subs[k].role = "narrator"
                   /\ Active(arg.subs[k], arg.t)
                   /\ arg.subs[k].start_time >= intro_end_time(arg.subs)
                   /\ ~TrailingNarrator(arg.subs, k)

(***************************************************************************)
(* The background of a frame (4_video_edit.py 145-208, 1276-1292,          *)
(* 1499-1526).  The background videos found are given by what happens when *)
(* each is loaded; the static image is present or missing.                 *)
(***************************************************************************)
MaxVideos == 3

MaxScenes == 3

LoadStates == {"ok", "broken"}

BackgroundArgs(videos, scenes) ==
    UNION { UNION { [videos : [1..n -> LoadStates],
                     image : {"present", "missing"},
                     scenes : {m}] : n \in 0..videos } : m \in 1..scenes }

\* line 177: scene i (from 1) takes the video at i - 1 modulo the number
VideoOfScene(i, n) == ((i - 1) % n) + 1

RECURSIVE load_scenes(_, _, _, _)
\* lines 174-206, scenes i..last: a scene whose video loads gets it; one
\* whose video fails gets the first loaded clip, or nothing when no scene
\* has loaded one so far
load_scenes(videos, i, last, result) ==
    IF i > last THEN result
    ELSE LET v == VideoOfScene(i, Len(videos))
         IN  IF videos[v] = "ok"
                 THEN load_scenes(videos, i + 1, last,
                                  Append(result, [scene |-> i, clip |-> v]))
             ELSE IF result # <<>>
                 THEN load_scenes(videos, i + 1, last,
                                  Append(result, [scene |-> i, clip |-> result[1].clip]))
             ELSE load_scenes(videos, i + 1, last, result)

\* lines 145-208
load_background_videos_for_scenes(videos, scenes) ==
    IF videos = <<>> THEN <<>> ELSE load_scenes(videos, 1, scenes, <<>>)

\* lines 1279, 1283-1292: None when background videos were found
background_img(videos, image) ==
    IF Len(videos) > 0 THEN "None"
    ELSE IF image = "present" THEN "image"
    ELSE "gray"

\* lines 1515-1526: the base image of a frame
frame_background(videos, image, scenes) ==
    LET use_video_background == Len(videos) > 0
        bg_video_clips == IF use_video_background
                          THEN load_background_videos_for_scenes(videos, scenes)
                          ELSE <<>>
        bg == background_img(videos, image)
    IN  IF use_video_background /\ bg_video_clips # <<>> THEN "video"
        ELSE IF bg = "None" THEN "raises"
        ELSE bg

BackgroundInit ==
    /\ arg \in BackgroundArgs(MaxVideos, MaxScenes)
    /\ ret = NotReturned
    /\ fpc = "called"

BackgroundCall ==
    /\ fpc = "called"
    /\ ret' = [kind |-> frame_background(arg.videos, arg.image, arg.scenes)]
    /\ fpc' = "returned"
    /\ UNCHANGED arg
    /\ UNCHANGED nonCallVars

InitBackground == BackgroundInit /\ EarlyIdle /\ ReadingIdle /\ NumberIdle /\ LastIdle

SpecBackground == InitBackground /\ [][BackgroundCall]_vars

\* no background video loads and there is no background image
NothingLoads ==
    /\ \A k \in 1..Len(arg.videos) : arg.videos[k] = "broken"
    /\ arg.image = "missing"

\* C26: when no background can be loaded (none is present, or every
\* background video present fails to load) the frame is the solid dark-gray
\* one and rendering does not fail.
C26_DarkGrayFallback ==
    (fpc = "returned" /\ NothingLoads) => ret.kind = "gray"

(***************************************************************************)
(* The whole text pipeline of a turn (3_voice_gen.py 642-651, 745-760):    *)
(* normalize_fullwidth_numbers, convert_large_numbers, apply_reading_dict, *)
(* convert_particle_ha, strip.                                             *)
(*                                                                         *)
(* Further characters: the kanji SHUU NYUU (income), NEN, TAME KIN         *)
(* (savings), SHAKU KIN (debt), ZEI KIN (tax), HAN BUN (half), ORE; the    *)
(* katakana _WA _I.                                                        *)
(***************************************************************************)
MaxPipeLen == 5

\* entries of READING_DICT whose key stands in a particle pattern:
\* lines 189, 208, 264, 292, 307, 308
PARTICLE_NOUN_READINGS ==
    << [orig    |-> <<"KIN", "_ha">>,
        reading |-> <<"_ka", "_ne", "_ha">>],
       [orig    |-> <<"_WA", "_I">>,
        reading |-> <<"_wa", "_i">>],
       [orig    |-> <<"HAN", "BUN">>,
        reading |-> <<"_ha", "_n", "_bu", "_n">>],
       [orig    |-> <<"SHUU", "NYUU">>,
        reading |-> <<"_shi", "_xyu", "_u", "_ni", "_xyu", "_u">>],
       [orig    |-> <<"SHAKU", "KIN">>,
        reading |-> <<"_shi", "_xya", "_xtu", "_ki", "_n">>],
       [orig    |-> <<"TAME", "KIN">>,
        reading |-> <<"_chi", "_xyo", "_ki", "_n">>] >>

\* the dict literal with those entries, in the order of its lines
VOICE_READING_DICT ==
    SubSeq(READING_DICT, 1, 4) \o SubSeq(PARTICLE_NOUN_READINGS, 1, 1)
        \o SubSeq(READING_DICT, 5, 7) \o SubSeq(PARTICLE_NOUN_READINGS, 2, 6)
        \o SubSeq(READING_DICT, 8, 9)

SortedVoiceReadingDict == SortedFrom(VOICE_READING_DICT, DOMAIN VOICE_READING_DICT)

\* lines 730-744 over that dict
apply_voice_reading_dict(text) == ApplyEntries(text, SortedVoiceReadingDict, 1)

\* entries of PARTICLE_HA_PATTERNS, in the order of the list:
\* lines 339, 340, 341, 344, 346, 362, 367, 370, 378
PARTICLE_HA_PATTERNS ==
    << [orig    |-> <<"SHUU", "NYUU", "_ha">>,
        reading |-> <<"_shi", "_xyu", "_u", "_ni", "_xyu", "_u", "_wa">>],
       [orig    |-> <<"NEN", "SHUU", "_ha">>,
        reading |-> <<"_ne", "_n", "_shi", "_xyu", "_u", "_wa">>],
       [orig    |-> <<"TAME", "KIN", "_ha">>,
        reading |-> <<"_chi", "_xyo", "_ki", "_n", "_wa">>],
       [orig    |-> <<"SHAKU", "KIN", "_ha">>,
        reading |-> <<"_shi", "_xya", "_xtu", "_ki", "_n", "_wa">>],
       [orig    |-> <<"ZEI", "KIN", "_ha">>,
        reading |-> <<"_ze", "_i", "_ki", "_n", "_wa">>],
       [orig    |-> <<"HAN", "BUN", "_ha">>,
        reading |-> <<"_ha", "_n", "_bu", "_n", "_wa">>],
       [orig    |-> <<"ORE", "_ha">>,
        reading |-> <<"_o", "_re", "_wa">>],
       [orig    |-> <<"_WA", "_I", "_ha">>,
        reading |-> <<"_wa", "_i", "_wa">>],
       [orig    |-> <<"_so", "_re", "_ha">>,
        reading |-> <<"_so", "_re", "_wa">>] >>

\* lines 391-395
convert_particle_ha(text) == ApplyEntries(text, PARTICLE_HA_PATTERNS, 1)

\* the texts of a turn: numbers with a unit, and a particle pattern alone or
\* between other characters
PipeChars == {"0", "1", "MAN", "a"}

PipeContexts == {<<>>, <<"a">>, <<" ">>, <<"KIN">>}

PipeTexts(max) ==
    UNION { [1..n -> PipeChars] : n \in 1..max }
        \cup { pre \o PARTICLE_HA_PATTERNS[k].orig \o post :
                   pre \in PipeContexts, post \in PipeContexts,
                   k \in DOMAIN PARTICLE_HA_PATTERNS }

PipeInit ==
    /\ arg \in PipeTexts(MaxPipeLen)
    /\ ret = NotReturned
    /\ fpc = "called"
    /\ ntext = <<>>

\* lines 644, 755
PipeNormalize ==
    /\ fpc = "called"
    /\ ntext' = normalize_fullwidth_numbers(arg)
    /\ fpc' = "pipe_normalized"
    /\ UNCHANGED <<arg, ret>>
    /\ UNCHANGED nonNumberVars

\* lines 646, 756
PipeNumbers ==
    /\ fpc = "pipe_normalized"
    /\ ntext' = convert_large_numbers(ntext)
    /\ fpc' = "pipe_numbers"
    /\ UNCHANGED <<arg, ret>>
    /\ UNCHANGED nonNumberVars

\* lines 648, 757
PipeDict ==
    /\ fpc = "pipe_numbers"
    /\ ntext' = apply_voice_reading_dict(ntext)
    /\ fpc' = "pipe_dict"
    /\ UNCHANGED <<arg, ret>>
    /\ UNCHANGED nonNumberVars

\* lines 650-651, 758-759
PipeParticle ==
    /\ fpc = "pipe_dict"
    /\ ret' = Strip(convert_particle_ha(ntext))
    /\ fpc' = "returned"
    /\ UNCHANGED <<arg, ntext>>
    /\ UNCHANGED nonNumberVars

PipeNext ==
    \/ PipeNormalize
    \/ PipeNumbers
    \/ PipeDict
    \/ PipeParticle

InitPipe == PipeInit /\ EarlyIdle /\ ReadingIdle /\ LastIdle

SpecPipe == InitPipe /\ [][PipeNext]_vars

\* C27: the pipeline turns the text 1000 MAN into the reading the dictionary
\* gives for it, i-s-se-n-ma-n.
C27_IssenMan ==
    (fpc = "returned" /\ arg = <<"1", "0", "0", "0", "MAN">>) =>
        ret = <<"_i", "_xtu", "_se", "_n", "_ma", "_n">>

\* C30: for every entry of the particle table the pipeline maps the pattern
\* (noun + ha) to its reading with wa: no earlier stage rewrites the noun so
\* that the pattern no longer matches.
C30_ParticlePatternsSurvive ==
    fpc = "returned" =>
        \A k \in DOMAIN PARTICLE_HA_PATTERNS :
            arg = PARTICLE_HA_PATTERNS[k].orig =>
                ret = PARTICLE_HA_PATTERNS[k].reading

(***************************************************************************)
(* Why a stack group is closed (4_video_edit.py 1386-1398).                *)
(***************************************************************************)
\* the inner loop is left in this step: the group is closed
ClosesGroup == gpc = "inner" /\ gpc' = "outer"

NoTurnLeft == gi > Len(stack_subtitles)

\* the turn at i would not fit under the turns of the group
NextOverflows ==
    /\ gi <= Len(stack_subtitles)
    /\ total_height + added_height(group, stack_subtitles[gi]) > max_group_height

\* C28 as stated: a group is closed only when adding the next turn would
\* overflow the available height, or when no turn is left.
C28_ClosedOnlyOnOverflow ==
    [][ClosesGroup => (NextOverflows \/ NoTurnLeft)]_vars

\* C28 as amended: a group is closed only when adding the next turn would
\* overflow the available height, when the group already holds
\* MAX_VISIBLE_SUBTITLES turns, or when no turn is left; the closed group is
\* not empty.
C28_ClosedOnOverflowOrCap ==
    [][ClosesGroup =>
          /\ group # <<>>
          /\ \/ NextOverflows
             \/ Len(group) = MAX_VISIBLE_SUBTITLES
             \/ NoTurnLeft]_vars

\* a group of four turns was closed although the next turn fits under them
C28_Witness ==
    /\ gpc = "outer"
    /\ Len(group) = MAX_VISIBLE_SUBTITLES
    /\ Len(subtitle_groups) > 0
    /\ subtitle_groups[Len(subtitle_groups)] = group
    /\ ~NoTurnLeft
    /\ ~NextOverflows

(***************************************************************************)
(* What has been done to the files of the voice map (3_voice_gen.py        *)
(* 626-636, 663-695).  A run starts from the files earlier runs left.      *)
(***************************************************************************)
\* the role's speed change (if it has one) and the loudness normalization
\* were applied to the file, each once
ProcessedOnce(i) ==
    /\ vfiles[i].norm = 1
    /\ vfiles[i].speed = (IF SpeedPct(script[i].role) # 100 THEN 1 ELSE 0)

\* C29: after any sequence of runs on one script and output directory, runs
\* in which a step failed part-way included, every audio file listed in the
\* voice map has had its role's speed adjustment and the loudness
\* normalization applied exactly once.
C29_MappedFilesProcessedOnce ==
    vpc = "done" => \A i \in outVoiceMap : ProcessedOnce(i)
====
